---- MODULE Spec2Model ----
(***************************************************************************)
(* Pressure-index engine of src/src/utils/pressure_index.py.               *)
(*                                                                         *)
(* The engine is a set of pure functions over a MatchState and a           *)
(* Duckworth-Lewis resource lookup.  Each function is an operator computed *)
(* as the code computes it; each specification draws the inputs in Init    *)
(* and has one action per operation, which stores the returned value.      *)
(*                                                                         *)
(* Python floats are modelled in fixed point: the integer v stands for the *)
(* float v / SCALE.  Products and quotients truncate toward zero.  The     *)
(* float +infinity is the value Inf, above every finite value the model    *)
(* computes, and the arithmetic operators propagate it as IEEE-754 does.   *)
(***************************************************************************)
EXTENDS Integers, Sequences, FiniteSets, TLC

(***************************************************************************)
(* Bounds of the model.                                                    *)
(***************************************************************************)
\* fixed-point resolution: units per 1.0
SCALE == 1000
\* target is drawn from 0..MaxTarget
MaxTarget == 4
\* runs_scored is drawn from 0..MaxRuns
MaxRuns == 5
\* balls_faced is drawn from the multiples of BallStep up to BallStep * MaxBallIdx
BallStep == 9
MaxBallIdx == 14
\* wickets_lost is drawn from 0..MaxWickets
MaxWickets == 10
\* the projection specification draws wickets_lost from the multiples of
\* WicketStep and from 9..MaxWickets
WicketStep == 3
\* the zone specification draws pi from 0..MaxPiUnits * SCALE and +infinity
MaxPiUnits == 4
\* the resource specification draws overs_left from the multiples of
\* OversStep / SCALE overs, from -MinOversIdx steps to MaxOversIdx steps
OversStep == 250
MinOversIdx == 8
MaxOversIdx == 88
\* and wickets_lost from -WicketMargin..(9 + WicketMargin)
WicketMargin == 2
\* the phase specification draws over from -MaxOver..MaxOver
MaxOver == 60
\* the number of concurrent evaluations that share one table
NumThreads == 2
\* the batch specification draws ball_data as at most MaxHead balls, then at
\* most MaxWicketRun wicket balls, then at most MaxTail balls
MaxHead == 1
MaxWicketRun == 11
MaxTail == 1
\* and total_balls from ShortInnings and the default
ShortInnings == 6
\* the over specification draws balls_faced from 0..MaxDotBalls
MaxDotBalls == 100

(***************************************************************************)
(* Fixed-point arithmetic.                                                 *)
(***************************************************************************)
\* float('inf')
Inf == 2000000000

\* None, the "not achievable" return value
NoneVal == -1

\* integer quotient truncated toward zero (the sign follows the real quotient)
TruncDiv(a, b) ==
    IF b < 0 THEN (IF a >= 0 THEN -(a \div (-b)) ELSE (-a) \div (-b))
    ELSE (IF a >= 0 THEN a \div b ELSE -((-a) \div b))

\* the decimal literal n/d as a float
Dec(n, d) == TruncDiv(n * SCALE, d)

\* float(i) for an int i
ToFloat(i) == i * SCALE

\* int / int -> float (Python true division), b # 0
IntDiv(a, b) == TruncDiv(a * SCALE, b)

\* float * float
FMul(a, b) ==
    IF a = Inf \/ b = Inf THEN Inf ELSE TruncDiv(a * b, SCALE)

\* float / float, b finite and non-zero
FDiv(a, b) ==
    IF a = Inf THEN Inf ELSE TruncDiv(a * SCALE, b)

\* float + float
FAdd(a, b) ==
    IF a = Inf \/ b = Inf THEN Inf ELSE a + b

\* max(a, b), min(a, b)
Max(a, b) == IF a >= b THEN a ELSE b

Min(a, b) == IF a <= b THEN a ELSE b

\* int(x) for a float x: truncation toward zero
IntOf(x) == TruncDiv(x, SCALE)

\* the Taylor series of exp from the term `term` = x^(n-1)/(n-1)!, summed
\* until the terms vanish at the model's resolution
RECURSIVE ExpSeries(_, _, _)
ExpSeries(x, term, n) ==
    IF term = 0 THEN 0
    ELSE term + ExpSeries(x, TruncDiv(term * x, SCALE * n), n + 1)

\* np.exp(x) for 0 <= x <= 1
Exp(x) == ExpSeries(x, SCALE, 1)

(***************************************************************************)
(* Constant tables.                                                        *)
(***************************************************************************)
\* WICKET_WEIGHTS, in hundredths
WeightHundredths == <<130, 135, 140, 145, 138, 118, 98, 79, 59, 39, 19>>

WICKET_WEIGHTS == [i \in 1..11 |-> Dec(WeightHundredths[i], 100)]

PhaseNames == {"powerplay", "middle_overs", "death_overs"}

\* the zones of a phase in the dict's insertion order
ZoneOrder == <<"target", "acceptable", "risky", "avoid">>

ZoneNames == {ZoneOrder[i] : i \in 1..Len(ZoneOrder)}

STRATEGIC_ZONES ==
    [powerplay |->
        [target |-> <<0, Dec(5, 10)>>,
         acceptable |-> <<Dec(5, 10), Dec(10, 10)>>,
         risky |-> <<Dec(10, 10), Dec(15, 10)>>,
         avoid |-> <<Dec(15, 10), Inf>>],
     middle_overs |->
        [target |-> <<0, Dec(10, 10)>>,
         acceptable |-> <<Dec(10, 10), Dec(15, 10)>>,
         risky |-> <<Dec(15, 10), Dec(25, 10)>>,
         avoid |-> <<Dec(25, 10), Inf>>],
     death_overs |->
        [target |-> <<0, Dec(10, 10)>>,
         acceptable |-> <<Dec(10, 10), Dec(25, 10)>>,
         risky |-> <<Dec(25, 10), Dec(35, 10)>>,
         avoid |-> <<Dec(35, 10), Inf>>]]

\* total_balls: int = 120, the default of every total_balls parameter
DEFAULT_TOTAL_BALLS == 120

(***************************************************************************)
(* The resource table.  The CSV file is not part of the repository, so the *)
(* data frame is an input: two frames with rows 0..20 that satisfy the     *)
(* grid's invariants (non-decreasing in overs_left, non-increasing in      *)
(* wickets_lost, 0 at overs_left = 0, 100 at (20, 0)).                     *)
(***************************************************************************)
\* a frame whose cells grow linearly in the overs left and the wickets in hand
FrameLinear ==
    [o \in 0..20 |-> [w \in 0..9 |-> TruncDiv(5 * o * (10 - w) * SCALE, 10)]]

\* a frame whose cells are concave in the overs left and the wickets in hand
FrameConcave ==
    [o \in 0..20 |->
        [w \in 0..9 |-> TruncDiv((40 * o - o * o) * (100 - w * w) * SCALE, 400)]]

\* DuckworthLewisTable._build_lookup: (overs_left, wickets) -> cell
_build_lookup(df) ==
    [k \in (DOMAIN df) \X (0..9) |-> df[k[1]][k[2]]]

Frames == {FrameLinear, FrameConcave}

\* the synthetic 3-row frame: overs 0 all 0; overs 1: wickets_0 50, wickets_1 40;
\* overs 2: wickets_0 100, wickets_1 80; the other columns 0.  Rows 3..20 are
\* absent from it.
FrameSynthetic ==
    [o \in 0..2 |->
        [w \in 0..9 |-> IF w = 0 THEN ToFloat(50 * o)
                        ELSE IF w = 1 THEN ToFloat(40 * o)
                        ELSE 0]]

\* a frame that satisfies the grid's order invariants with non-zero cells at
\* overs_left = 0
FrameRaised ==
    [o \in 0..20 |-> [w \in 0..9 |-> TruncDiv((20 + 4 * o) * (10 - w) * SCALE, 10)]]

\* the frames of the resource specification
ResFrames == Frames \cup {FrameSynthetic, FrameRaised}

\* self.lookup.get(key, 0.0) with 100.0 as the default (mutant)
Mut_lookup_default_full(lk, key) == IF key \in DOMAIN lk THEN lk[key] ELSE ToFloat(100)

\* self.lookup.get(key, 0.0)
LookupGet(lk, key) == IF key \in DOMAIN lk THEN lk[key] ELSE 0

\* self.lookup after self.lookup.setdefault(key, 0.0) in the place of get (mutant)
Mut_lookup_after_setdefault(lk, key) ==
    IF key \in DOMAIN lk THEN lk
    ELSE [k \in (DOMAIN lk) \cup {key} |-> IF k = key THEN 0 ELSE lk[k]]

\* self.lookup after self.lookup.get(key, 0.0): get inserts nothing
LookupAfterGet(lk, key) == lk

\* the key of res_floor in get_resources_remaining
FloorKey(overs_left_, wickets_lost_) ==
    <<Max(0, Min(20, IntOf(overs_left_))), Max(0, Min(9, wickets_lost_))>>

\* the key of res_ceil in get_resources_remaining
CeilKey(overs_left_, wickets_lost_) ==
    <<Max(0, Min(20, IntOf(overs_left_) + 1)), Max(0, Min(9, wickets_lost_))>>

\* get_resources_remaining weighting the floor by the fraction (mutant)
Mut_remaining_weights_swapped(lk, overs_left_, wickets_lost_) ==
    LET w == Max(0, Min(9, wickets_lost_))
        overs_floor0 == IntOf(overs_left_)
        overs_ceil0 == overs_floor0 + 1
        fraction == overs_left_ - ToFloat(overs_floor0)
        overs_floor == Max(0, Min(20, overs_floor0))
        overs_ceil == Max(0, Min(20, overs_ceil0))
        res_floor == LookupGet(lk, <<overs_floor, w>>)
        res_ceil == LookupGet(lk, <<overs_ceil, w>>)
    IN  IF overs_floor = 0 THEN 0
        ELSE IF overs_ceil = overs_floor THEN res_floor
        ELSE res_ceil + FMul(fraction, res_floor - res_ceil)

\* get_resources_remaining without the clamp of overs_ceil (mutant)
Mut_remaining_ceil_unclamped(lk, overs_left_, wickets_lost_) ==
    LET w == Max(0, Min(9, wickets_lost_))
        overs_floor0 == IntOf(overs_left_)
        overs_ceil0 == overs_floor0 + 1
        fraction == overs_left_ - ToFloat(overs_floor0)
        overs_floor == Max(0, Min(20, overs_floor0))
        overs_ceil == overs_ceil0
        res_floor == LookupGet(lk, <<overs_floor, w>>)
        res_ceil == LookupGet(lk, <<overs_ceil, w>>)
    IN  IF overs_floor = 0 THEN 0
        ELSE IF overs_ceil = overs_floor THEN res_floor
        ELSE res_floor + FMul(fraction, res_ceil - res_floor)

\* get_resources_remaining without the return at overs_floor == 0 (mutant)
Mut_remaining_interpolates_from_zero(lk, overs_left_, wickets_lost_) ==
    LET w == Max(0, Min(9, wickets_lost_))
        overs_floor0 == IntOf(overs_left_)
        overs_ceil0 == overs_floor0 + 1
        fraction == overs_left_ - ToFloat(overs_floor0)
        overs_floor == Max(0, Min(20, overs_floor0))
        overs_ceil == Max(0, Min(20, overs_ceil0))
        res_floor == LookupGet(lk, <<overs_floor, w>>)
        res_ceil == LookupGet(lk, <<overs_ceil, w>>)
    IN  IF overs_ceil = overs_floor THEN res_floor
        ELSE res_floor + FMul(fraction, res_ceil - res_floor)

\* get_resources_remaining without the clamp of wickets_lost (mutant)
Mut_remaining_wickets_unclamped(lk, overs_left_, wickets_lost_) ==
    LET w == wickets_lost_
        overs_floor0 == IntOf(overs_left_)
        overs_ceil0 == overs_floor0 + 1
        fraction == overs_left_ - ToFloat(overs_floor0)
        overs_floor == Max(0, Min(20, overs_floor0))
        overs_ceil == Max(0, Min(20, overs_ceil0))
        res_floor == LookupGet(lk, <<overs_floor, w>>)
        res_ceil == LookupGet(lk, <<overs_ceil, w>>)
    IN  IF overs_floor = 0 THEN 0
        ELSE IF overs_ceil = overs_floor THEN res_floor
        ELSE res_floor + FMul(fraction, res_ceil - res_floor)

\* DuckworthLewisTable.get_resources_remaining
get_resources_remaining(lk, overs_left_, wickets_lost_) ==
    LET w == Max(0, Min(9, wickets_lost_))
        overs_floor0 == IntOf(overs_left_)
        overs_ceil0 == overs_floor0 + 1
        fraction == overs_left_ - ToFloat(overs_floor0)
        overs_floor == Max(0, Min(20, overs_floor0))
        overs_ceil == Max(0, Min(20, overs_ceil0))
        res_floor == LookupGet(lk, <<overs_floor, w>>)
        res_ceil == LookupGet(lk, <<overs_ceil, w>>)
    IN  IF overs_floor = 0 THEN 0
        ELSE IF overs_ceil = overs_floor THEN res_floor
        ELSE res_floor + FMul(fraction, res_ceil - res_floor)

\* get_resources_used taking the overs bowled for the overs left (mutant)
Mut_used_from_balls_faced(lk, balls_faced_, wickets_lost_, total_balls_) ==
    LET overs_bowled == IntDiv(balls_faced_, 6)
        resources_remaining == get_resources_remaining(lk, overs_bowled, wickets_lost_)
        resources_used == ToFloat(100) - resources_remaining
    IN  Max(0, resources_used)

\* DuckworthLewisTable.get_resources_used
get_resources_used(lk, balls_faced_, wickets_lost_, total_balls_) ==
    LET overs_left == IntDiv(total_balls_ - balls_faced_, 6)
        resources_remaining == get_resources_remaining(lk, overs_left, wickets_lost_)
        resources_used == ToFloat(100) - resources_remaining
    IN  Max(0, resources_used)

(***************************************************************************)
(* PressureIndexCalculator.                                                *)
(***************************************************************************)
\* calculate_initial_required_run_rate with the floor division (target * 6) //
\* total_balls (mutant)
Mut_irrr_floor_division(target_, total_balls_) ==
    IF total_balls_ = 0 THEN 0 ELSE ToFloat((target_ * 6) \div total_balls_)

\* calculate_initial_required_run_rate
calculate_initial_required_run_rate(target_, total_balls_) ==
    IF total_balls_ = 0 THEN 0 ELSE IntDiv(target_ * 6, total_balls_)

\* calculate_current_required_run_rate with a finite rate once the balls are
\* exhausted (mutant)
Mut_crrr_zero_when_no_balls(target_, runs_scored_, balls_faced_, total_balls_) ==
    LET runs_remaining == target_ - runs_scored_
        balls_remaining == total_balls_ - balls_faced_
    IN  IF balls_remaining <= 0 THEN 0
        ELSE IntDiv(runs_remaining * 6, balls_remaining)

\* calculate_current_required_run_rate
calculate_current_required_run_rate(target_, runs_scored_, balls_faced_, total_balls_) ==
    LET runs_remaining == target_ - runs_scored_
        balls_remaining == total_balls_ - balls_faced_
    IN  IF balls_remaining <= 0
        THEN (IF runs_remaining <= 0 THEN 0 ELSE Inf)
        ELSE IntDiv(runs_remaining * 6, balls_remaining)

\* sum(WICKET_WEIGHTS.get(i, 0) for i in range(from, to))
RECURSIVE WeightRangeSum(_, _)
WeightRangeSum(from, to) ==
    IF from >= to THEN 0
    ELSE (IF from \in DOMAIN WICKET_WEIGHTS THEN WICKET_WEIGHTS[from] ELSE 0)
         + WeightRangeSum(from + 1, to)

\* calculate_wicket_weight_sum summing range(1, wickets_lost) (mutant)
Mut_weight_sum_off_by_one(wickets_lost_) ==
    IF wickets_lost_ <= 0 THEN 0
    ELSE WeightRangeSum(1, Min(wickets_lost_, 12))

\* calculate_wicket_weight_sum
calculate_wicket_weight_sum(wickets_lost_) ==
    IF wickets_lost_ <= 0 THEN 0
    ELSE WeightRangeSum(1, Min(wickets_lost_ + 1, 12))

\* the formula with the ratio taken as IRRR / CRRR (mutant)
Mut_formula_inverted_ci(lk, target_, runs_scored_, balls_faced_, wickets_lost_, total_balls_) ==
    LET irrr == calculate_initial_required_run_rate(target_, total_balls_)
        crrr == calculate_current_required_run_rate(target_, runs_scored_,
                                                    balls_faced_, total_balls_)
    IN  IF irrr = 0 THEN 0
        ELSE
          LET ci == IF crrr = Inf THEN 0 ELSE FDiv(irrr, crrr)
              ru == get_resources_used(lk, balls_faced_, wickets_lost_, total_balls_)
              sum_wi == calculate_wicket_weight_sum(wickets_lost_)
              exp_ru == Exp(FDiv(ru, ToFloat(100)))
              exp_wi == Exp(FDiv(sum_wi, ToFloat(11)))
              pi_ == FMul(FMul(ci, Dec(5, 10)), FAdd(exp_ru, exp_wi))
          IN  Max(0, pi_)

\* calculate_pressure_index past its first two checks: the components, the
\* IRRR = 0 check, formula (6) and the censoring at 0
PressureFormula(lk, target_, runs_scored_, balls_faced_, wickets_lost_, total_balls_) ==
    LET irrr == calculate_initial_required_run_rate(target_, total_balls_)
        crrr == calculate_current_required_run_rate(target_, runs_scored_,
                                                    balls_faced_, total_balls_)
    IN  IF irrr = 0 THEN 0
        ELSE
          LET ci == FDiv(crrr, irrr)
              ru == get_resources_used(lk, balls_faced_, wickets_lost_, total_balls_)
              sum_wi == calculate_wicket_weight_sum(wickets_lost_)
              exp_ru == Exp(FDiv(ru, ToFloat(100)))
              exp_wi == Exp(FDiv(sum_wi, ToFloat(11)))
              pi_ == FMul(FMul(ci, Dec(5, 10)), FAdd(exp_ru, exp_wi))
          IN  Max(0, pi_)

\* calculate_pressure_index with the all-out check ahead of the target check
\* (mutant)
Mut_pi_all_out_first(lk, target_, runs_scored_, balls_faced_, wickets_lost_, total_balls_) ==
    IF wickets_lost_ >= 10 THEN Inf
    ELSE IF runs_scored_ >= target_ THEN 0
    ELSE PressureFormula(lk, target_, runs_scored_, balls_faced_, wickets_lost_,
                         total_balls_)

\* calculate_pressure_index with the all-out check as wickets_lost > 10 (mutant)
Mut_pi_all_out_above_ten(lk, target_, runs_scored_, balls_faced_, wickets_lost_, total_balls_) ==
    IF runs_scored_ >= target_ THEN 0
    ELSE IF wickets_lost_ > 10 THEN Inf
    ELSE PressureFormula(lk, target_, runs_scored_, balls_faced_, wickets_lost_,
                         total_balls_)

\* calculate_pressure_index with -1.0 as the all-out sentinel (mutant)
Mut_pi_negative_sentinel(lk, target_, runs_scored_, balls_faced_, wickets_lost_, total_balls_) ==
    IF runs_scored_ >= target_ THEN 0
    ELSE IF wickets_lost_ >= 10 THEN -ToFloat(1)
    ELSE PressureFormula(lk, target_, runs_scored_, balls_faced_, wickets_lost_,
                         total_balls_)

\* calculate_pressure_index
calculate_pressure_index(lk, target_, runs_scored_, balls_faced_, wickets_lost_, total_balls_) ==
    IF runs_scored_ >= target_ THEN 0
    ELSE IF wickets_lost_ >= 10 THEN Inf
    ELSE PressureFormula(lk, target_, runs_scored_, balls_faced_, wickets_lost_,
                         total_balls_)

(***************************************************************************)
(* The batch computation.  A ball is a dict; the loop reads its 'runs' and *)
(* 'wicket' keys with a default.                                           *)
(***************************************************************************)
\* ball.get(key, default)
BallGet(ball, key, default) == IF key \in DOMAIN ball THEN ball[key] ELSE default

\* the loop of calculate_ball_by_ball_pi from the ball of index i on, with
\* the wicket count set, not incremented, at a wicket (mutant)
RECURSIVE Mut_ball_loop_wickets_not_summed(_, _, _, _, _, _, _)
Mut_ball_loop_wickets_not_summed(lk, target_, ball_data_, total_balls_, i, cumulative_runs0, cumulative_wickets0) ==
    IF i > Len(ball_data_) THEN <<>>
    ELSE LET ball == ball_data_[i]
             ball_num == i
             cumulative_runs == cumulative_runs0 + BallGet(ball, "runs", 0)
             cumulative_wickets == IF BallGet(ball, "wicket", FALSE) THEN 1
                                   ELSE cumulative_wickets0
             pi_ == calculate_pressure_index(lk, target_, cumulative_runs, ball_num,
                                             cumulative_wickets, total_balls_)
         IN  <<[ball |-> ball_num,
                over |-> ((ball_num - 1) \div 6) + 1,
                ball_in_over |-> ((ball_num - 1) % 6) + 1,
                runs |-> cumulative_runs,
                wickets |-> cumulative_wickets,
                pressure_index |-> pi_,
                is_wicket |-> BallGet(ball, "wicket", FALSE)]>>
             \o Mut_ball_loop_wickets_not_summed(lk, target_, ball_data_, total_balls_,
                                                 i + 1, cumulative_runs,
                                                 cumulative_wickets)

\* the loop of calculate_ball_by_ball_pi from the ball of index i on, leaving
\* the loop once the target is reached (mutant)
RECURSIVE Mut_ball_loop_breaks_at_target(_, _, _, _, _, _, _)
Mut_ball_loop_breaks_at_target(lk, target_, ball_data_, total_balls_, i, cumulative_runs0, cumulative_wickets0) ==
    IF i > Len(ball_data_) THEN <<>>
    ELSE LET ball == ball_data_[i]
             ball_num == i
             cumulative_runs == cumulative_runs0 + BallGet(ball, "runs", 0)
             cumulative_wickets == IF BallGet(ball, "wicket", FALSE)
                                   THEN cumulative_wickets0 + 1
                                   ELSE cumulative_wickets0
             pi_ == calculate_pressure_index(lk, target_, cumulative_runs, ball_num,
                                             cumulative_wickets, total_balls_)
         IN  <<[ball |-> ball_num,
                over |-> ((ball_num - 1) \div 6) + 1,
                ball_in_over |-> ((ball_num - 1) % 6) + 1,
                runs |-> cumulative_runs,
                wickets |-> cumulative_wickets,
                pressure_index |-> pi_,
                is_wicket |-> BallGet(ball, "wicket", FALSE)]>>
             \o (IF cumulative_runs >= target_ THEN <<>>
                 ELSE Mut_ball_loop_breaks_at_target(lk, target_, ball_data_,
                                                     total_balls_, i + 1,
                                                     cumulative_runs,
                                                     cumulative_wickets))

\* the loop of calculate_ball_by_ball_pi from the ball of index i on
\* (1-based: i is ball_num), with the two accumulators as they stand
RECURSIVE BallLoop(_, _, _, _, _, _, _)
BallLoop(lk, target_, ball_data_, total_balls_, i, cumulative_runs0, cumulative_wickets0) ==
    IF i > Len(ball_data_) THEN <<>>
    ELSE LET ball == ball_data_[i]
             ball_num == i
             cumulative_runs == cumulative_runs0 + BallGet(ball, "runs", 0)
             cumulative_wickets == IF BallGet(ball, "wicket", FALSE)
                                   THEN cumulative_wickets0 + 1
                                   ELSE cumulative_wickets0
             pi_ == calculate_pressure_index(lk, target_, cumulative_runs, ball_num,
                                             cumulative_wickets, total_balls_)
         IN  <<[ball |-> ball_num,
                over |-> ((ball_num - 1) \div 6) + 1,
                ball_in_over |-> ((ball_num - 1) % 6) + 1,
                runs |-> cumulative_runs,
                wickets |-> cumulative_wickets,
                pressure_index |-> pi_,
                is_wicket |-> BallGet(ball, "wicket", FALSE)]>>
             \o BallLoop(lk, target_, ball_data_, total_balls_, i + 1,
                         cumulative_runs, cumulative_wickets)

\* calculate_ball_by_ball_pi setting the wicket count at a wicket (mutant)
Mut_ball_by_ball_wickets_not_summed(lk, target_, ball_data_, total_balls_) ==
    Mut_ball_loop_wickets_not_summed(lk, target_, ball_data_, total_balls_, 1, 0, 0)

\* calculate_ball_by_ball_pi leaving the loop at the target (mutant)
Mut_ball_by_ball_breaks_at_target(lk, target_, ball_data_, total_balls_) ==
    Mut_ball_loop_breaks_at_target(lk, target_, ball_data_, total_balls_, 1, 0, 0)

\* calculate_ball_by_ball_pi with 'over' taken as ball_num // 6 + 1 (mutant)
Mut_ball_by_ball_over_of_next_ball(lk, target_, ball_data_, total_balls_) ==
    [i \in 1..Len(ball_data_) |->
        [BallLoop(lk, target_, ball_data_, total_balls_, 1, 0, 0)[i] EXCEPT
            !.over = (i \div 6) + 1]]

\* PressureIndexCalculator.calculate_ball_by_ball_pi
calculate_ball_by_ball_pi(lk, target_, ball_data_, total_balls_) ==
    BallLoop(lk, target_, ball_data_, total_balls_, 1, 0, 0)

(***************************************************************************)
(* Phases, zones and projections.                                          *)
(***************************************************************************)
\* get_phase with the powerplay ending before over 6 (mutant)
Mut_phase_powerplay_below_six(over_) ==
    IF over_ < 6 THEN "powerplay"
    ELSE IF over_ <= 16 THEN "middle_overs"
    ELSE "death_overs"

\* get_phase
get_phase(over) ==
    IF over <= 6 THEN "powerplay"
    ELSE IF over <= 16 THEN "middle_overs"
    ELSE "death_overs"

\* STRATEGIC_ZONES.get(phase, STRATEGIC_ZONES['middle_overs'])
ZonesOf(phase_) ==
    IF phase_ \in DOMAIN STRATEGIC_ZONES THEN STRATEGIC_ZONES[phase_]
    ELSE STRATEGIC_ZONES["middle_overs"]

\* the loop of get_zone_for_pi from the i-th zone of the dict on
RECURSIVE ZoneScan(_, _, _)
ZoneScan(zones, pi_, i) ==
    IF i > Len(ZoneOrder) THEN "avoid"
    ELSE LET low == zones[ZoneOrder[i]][1]
             high == zones[ZoneOrder[i]][2]
         IN  IF low <= pi_ /\ pi_ < high THEN ZoneOrder[i]
             ELSE ZoneScan(zones, pi_, i + 1)

\* the loop of get_zone_for_pi testing low < pi <= high (mutant)
RECURSIVE Mut_zone_scan_closed_above(_, _, _)
Mut_zone_scan_closed_above(zones, pi_, i) ==
    IF i > Len(ZoneOrder) THEN "avoid"
    ELSE LET low == zones[ZoneOrder[i]][1]
             high == zones[ZoneOrder[i]][2]
         IN  IF low < pi_ /\ pi_ <= high THEN ZoneOrder[i]
             ELSE Mut_zone_scan_closed_above(zones, pi_, i + 1)

\* get_zone_for_pi with the intervals taken as (low, high] (mutant)
Mut_zone_closed_above(pi_, phase_) == Mut_zone_scan_closed_above(ZonesOf(phase_), pi_, 1)

\* get_zone_for_pi
get_zone_for_pi(pi_, phase_) == ZoneScan(ZonesOf(phase_), pi_, 1)

\* the loop of calculate_required_runs_for_zone from runs_needed on; the
\* pressure index is evaluated with the default total_balls
RECURSIVE RunsScan(_, _, _, _, _, _, _, _)
RunsScan(lk, target_, runs_scored_, new_balls, wickets_lost_, target_pi, runs_remaining, runs_needed) ==
    IF runs_needed > runs_remaining THEN NoneVal
    ELSE LET new_runs == runs_scored_ + runs_needed
             new_pi == calculate_pressure_index(lk, target_, new_runs, new_balls,
                                                wickets_lost_, DEFAULT_TOTAL_BALLS)
         IN  IF new_pi < target_pi THEN runs_needed
             ELSE RunsScan(lk, target_, runs_scored_, new_balls, wickets_lost_,
                           target_pi, runs_remaining, runs_needed + 1)

\* calculate_required_runs_for_zone scanning range(1, runs_remaining + 1) (mutant)
Mut_required_runs_scan_from_one(current_pi, target_, runs_scored_, balls_faced_, wickets_lost_, balls_ahead_, phase_, lk, zone_) ==
    LET zones == ZonesOf(phase_)
    IN  IF zone_ \notin DOMAIN zones THEN NoneVal
        ELSE LET target_pi == zones[zone_][2]
                 new_balls == balls_faced_ + balls_ahead_
                 runs_remaining == target_ - runs_scored_
             IN  IF runs_remaining <= 0 THEN 0
                 ELSE RunsScan(lk, target_, runs_scored_, new_balls, wickets_lost_,
                               target_pi, runs_remaining, 1)

\* calculate_required_runs_for_zone scanning range(0, runs_remaining) (mutant)
Mut_required_runs_scan_short(current_pi, target_, runs_scored_, balls_faced_, wickets_lost_, balls_ahead_, phase_, lk, zone_) ==
    LET zones == ZonesOf(phase_)
    IN  IF zone_ \notin DOMAIN zones THEN NoneVal
        ELSE LET target_pi == zones[zone_][2]
                 new_balls == balls_faced_ + balls_ahead_
                 runs_remaining == target_ - runs_scored_
             IN  IF runs_remaining <= 0 THEN 0
                 ELSE RunsScan(lk, target_, runs_scored_, new_balls, wickets_lost_,
                               target_pi, runs_remaining - 1, 0)

\* calculate_required_runs_for_zone comparing with the lower bound of the
\* zone (mutant)
Mut_required_runs_lower_bound(current_pi, target_, runs_scored_, balls_faced_, wickets_lost_, balls_ahead_, phase_, lk, zone_) ==
    LET zones == ZonesOf(phase_)
    IN  IF zone_ \notin DOMAIN zones THEN NoneVal
        ELSE LET target_pi == zones[zone_][1]
                 new_balls == balls_faced_ + balls_ahead_
                 runs_remaining == target_ - runs_scored_
             IN  IF runs_remaining <= 0 THEN 0
                 ELSE RunsScan(lk, target_, runs_scored_, new_balls, wickets_lost_,
                               target_pi, runs_remaining, 0)

\* calculate_required_runs_for_zone with new_balls = balls_faced (mutant)
Mut_required_runs_current_balls(current_pi, target_, runs_scored_, balls_faced_, wickets_lost_, balls_ahead_, phase_, lk, zone_) ==
    LET zones == ZonesOf(phase_)
    IN  IF zone_ \notin DOMAIN zones THEN NoneVal
        ELSE LET target_pi == zones[zone_][2]
                 new_balls == balls_faced_
                 runs_remaining == target_ - runs_scored_
             IN  IF runs_remaining <= 0 THEN 0
                 ELSE RunsScan(lk, target_, runs_scored_, new_balls, wickets_lost_,
                               target_pi, runs_remaining, 0)

\* calculate_required_runs_for_zone
calculate_required_runs_for_zone(current_pi, target_, runs_scored_, balls_faced_, wickets_lost_, balls_ahead_, phase_, lk, zone_) ==
    LET zones == ZonesOf(phase_)
    IN  IF zone_ \notin DOMAIN zones THEN NoneVal
        ELSE LET target_pi == zones[zone_][2]
                 new_balls == balls_faced_ + balls_ahead_
                 runs_remaining == target_ - runs_scored_
             IN  IF runs_remaining <= 0 THEN 0
                 ELSE RunsScan(lk, target_, runs_scored_, new_balls, wickets_lost_,
                               target_pi, runs_remaining, 0)

\* round(x, 2) for the float x = num / den >= 0: the nearest hundredth of the
\* quotient, ties to even
Round2(num, den) ==
    LET q == (100 * num) \div den
        r == (100 * num) % den
    IN  IF 2 * r > den \/ (2 * r = den /\ q % 2 = 1) THEN Dec(q + 1, 100)
        ELSE Dec(q, 100)

\* [(1, 'next_1_over'), (2, 'next_2_overs'), (3, 'next_3_overs')]
HorizonList == <<<<1, "next_1_over">>, <<2, "next_2_overs">>, <<3, "next_3_overs">>>>

\* ['target', 'acceptable', 'risky']
ProjectionZones == {"target", "acceptable", "risky"}

\* balls_ahead of one horizon without the clip (mutant)
Mut_horizon_balls_unclipped(overs_ahead, balls_faced_, total_balls_) ==
    overs_ahead * 6

\* balls_ahead of one horizon after the clip to the end of the innings
HorizonBalls(overs_ahead, balls_faced_, total_balls_) ==
    IF balls_faced_ + overs_ahead * 6 > total_balls_
    THEN total_balls_ - balls_faced_
    ELSE overs_ahead * 6

\* the entry of one horizon and zone testing `if runs_needed:` (mutant)
Mut_zone_entry_truthiness(current_pi, target_, runs_scored_, balls_faced_, wickets_lost_, balls_ahead_, phase_, lk, zone_) ==
    LET runs_needed_ == calculate_required_runs_for_zone(
                            current_pi, target_, runs_scored_, balls_faced_,
                            wickets_lost_, balls_ahead_, phase_, lk, zone_)
    IN  IF runs_needed_ # NoneVal /\ runs_needed_ # 0
        THEN [runs |-> runs_needed_,
              rpo |-> IF balls_ahead_ > 0 THEN Round2(runs_needed_ * 6, balls_ahead_)
                      ELSE Round2(0, 1),
              achievable |-> TRUE]
        ELSE [runs |-> NoneVal, rpo |-> NoneVal, achievable |-> FALSE]

\* the entry of one horizon and zone with rpo = runs_needed / balls_ahead (mutant)
Mut_zone_entry_rate_per_ball(current_pi, target_, runs_scored_, balls_faced_, wickets_lost_, balls_ahead_, phase_, lk, zone_) ==
    LET runs_needed_ == calculate_required_runs_for_zone(
                            current_pi, target_, runs_scored_, balls_faced_,
                            wickets_lost_, balls_ahead_, phase_, lk, zone_)
    IN  IF runs_needed_ # NoneVal
        THEN [runs |-> runs_needed_,
              rpo |-> IF balls_ahead_ > 0 THEN Round2(runs_needed_, balls_ahead_)
                      ELSE Round2(0, 1),
              achievable |-> TRUE]
        ELSE [runs |-> NoneVal, rpo |-> NoneVal, achievable |-> FALSE]

\* horizon_data['zones'][zone] of one horizon and zone
ZoneEntry(current_pi, target_, runs_scored_, balls_faced_, wickets_lost_, balls_ahead_, phase_, lk, zone_) ==
    LET runs_needed_ == calculate_required_runs_for_zone(
                            current_pi, target_, runs_scored_, balls_faced_,
                            wickets_lost_, balls_ahead_, phase_, lk, zone_)
    IN  IF runs_needed_ # NoneVal
        THEN [runs |-> runs_needed_,
              rpo |-> IF balls_ahead_ > 0 THEN Round2(runs_needed_ * 6, balls_ahead_)
                      ELSE Round2(0, 1),
              achievable |-> TRUE]
        ELSE [runs |-> NoneVal, rpo |-> NoneVal, achievable |-> FALSE]

\* calculate_strategic_projections passing the phase at each horizon (mutant)
Mut_projections_horizon_phase(target_, runs_scored_, balls_faced_, wickets_lost_, lk, total_balls_) ==
    LET current_pi == calculate_pressure_index(lk, target_, runs_scored_, balls_faced_,
                                               wickets_lost_, total_balls_)
        current_over == (balls_faced_ \div 6) + 1
        phase_ == get_phase(current_over)
        kept == {i \in 1..Len(HorizonList) :
                    HorizonBalls(HorizonList[i][1], balls_faced_, total_balls_) > 0}
        labels == {HorizonList[i][2] : i \in kept}
        idx(label) == CHOOSE i \in kept : HorizonList[i][2] = label
    IN  [current_pi |-> current_pi,
         phase |-> phase_,
         horizons |->
            [label \in labels |->
                LET ba == HorizonBalls(HorizonList[idx(label)][1], balls_faced_,
                                       total_balls_)
                IN  [balls |-> ba,
                     zones |-> [z \in ProjectionZones |->
                                  ZoneEntry(current_pi, target_, runs_scored_,
                                            balls_faced_, wickets_lost_, ba,
                                            get_phase(((balls_faced_ + ba) \div 6) + 1),
                                            lk, z)]]]]

\* calculate_strategic_projections
calculate_strategic_projections(target_, runs_scored_, balls_faced_, wickets_lost_, lk, total_balls_) ==
    LET current_pi == calculate_pressure_index(lk, target_, runs_scored_, balls_faced_,
                                               wickets_lost_, total_balls_)
        current_over == (balls_faced_ \div 6) + 1
        phase_ == get_phase(current_over)
        kept == {i \in 1..Len(HorizonList) :
                    HorizonBalls(HorizonList[i][1], balls_faced_, total_balls_) > 0}
        labels == {HorizonList[i][2] : i \in kept}
        idx(label) == CHOOSE i \in kept : HorizonList[i][2] = label
    IN  [current_pi |-> current_pi,
         phase |-> phase_,
         horizons |->
            [label \in labels |->
                LET ba == HorizonBalls(HorizonList[idx(label)][1], balls_faced_,
                                       total_balls_)
                IN  [balls |-> ba,
                     zones |-> [z \in ProjectionZones |->
                                  ZoneEntry(current_pi, target_, runs_scored_,
                                            balls_faced_, wickets_lost_, ba, phase_,
                                            lk, z)]]]]

(***************************************************************************)
(* Exceptions.  The operations hold no raise statement; what can raise is  *)
(* a division by zero and int() of a non-finite float.  For each operation *)
(* the operator below tells whether a call with these arguments raises, by *)
(* following the same branches as the operation.                           *)
(***************************************************************************)
\* a / b raises ZeroDivisionError
DivRaises(b) == b = 0

\* int(x) raises OverflowError
IntRaises(x) == x = Inf

\* get_resources_remaining: int(overs_left); the lookups are dict.get with a default
get_resources_remaining_raises(lk, overs_left_, wickets_lost_) == IntRaises(overs_left_)

\* get_resources_used: the division is by the literal 6.0
get_resources_used_raises(lk, balls_faced_, wickets_lost_, total_balls_) ==
    \/ DivRaises(6)
    \/ get_resources_remaining_raises(lk, IntDiv(total_balls_ - balls_faced_, 6),
                                      wickets_lost_)

\* calculate_initial_required_run_rate: (target * 6) / total_balls
calculate_initial_required_run_rate_raises(target_, total_balls_) ==
    IF total_balls_ = 0 THEN FALSE ELSE DivRaises(total_balls_)

\* calculate_current_required_run_rate guarding balls_remaining < 0 only (mutant)
Mut_crrr_raises_guard_negative(target_, runs_scored_, balls_faced_, total_balls_) ==
    LET balls_remaining == total_balls_ - balls_faced_
    IN  IF balls_remaining < 0 THEN FALSE ELSE DivRaises(balls_remaining)

\* calculate_current_required_run_rate: (runs_remaining * 6) / balls_remaining
calculate_current_required_run_rate_raises(target_, runs_scored_, balls_faced_, total_balls_) ==
    LET balls_remaining == total_balls_ - balls_faced_
    IN  IF balls_remaining <= 0 THEN FALSE ELSE DivRaises(balls_remaining)

\* calculate_pressure_index: the two rates, crrr / irrr, the resources used,
\* ru / 100 and sum_wi / 11
calculate_pressure_index_raises(lk, target_, runs_scored_, balls_faced_, wickets_lost_, total_balls_) ==
    IF runs_scored_ >= target_ THEN FALSE
    ELSE IF wickets_lost_ >= 10 THEN FALSE
    ELSE \/ calculate_initial_required_run_rate_raises(target_, total_balls_)
         \/ calculate_current_required_run_rate_raises(target_, runs_scored_,
                                                       balls_faced_, total_balls_)
         \/ IF calculate_initial_required_run_rate(target_, total_balls_) = 0 THEN FALSE
            ELSE \/ DivRaises(calculate_initial_required_run_rate(target_, total_balls_))
                 \/ get_resources_used_raises(lk, balls_faced_, wickets_lost_,
                                              total_balls_)
                 \/ DivRaises(ToFloat(100))
                 \/ DivRaises(ToFloat(11))

\* get_phase: two comparisons of an int
get_phase_raises(over_) == FALSE

\* get_zone_for_pi: dict.get with a default and comparisons of floats
get_zone_for_pi_raises(pi_, phase_) == FALSE

\* the loop of calculate_required_runs_for_zone from runs_needed on
RECURSIVE RunsScanRaises(_, _, _, _, _, _, _, _)
RunsScanRaises(lk, target_, runs_scored_, new_balls, wickets_lost_, target_pi, runs_remaining, runs_needed) ==
    IF runs_needed > runs_remaining THEN FALSE
    ELSE LET new_runs == runs_scored_ + runs_needed
         IN  IF calculate_pressure_index_raises(lk, target_, new_runs, new_balls,
                                                wickets_lost_, DEFAULT_TOTAL_BALLS)
             THEN TRUE
             ELSE IF calculate_pressure_index(lk, target_, new_runs, new_balls,
                                              wickets_lost_, DEFAULT_TOTAL_BALLS)
                     < target_pi
                  THEN FALSE
                  ELSE RunsScanRaises(lk, target_, runs_scored_, new_balls,
                                      wickets_lost_, target_pi, runs_remaining,
                                      runs_needed + 1)

\* calculate_required_runs_for_zone
calculate_required_runs_for_zone_raises(current_pi, target_, runs_scored_, balls_faced_, wickets_lost_, balls_ahead_, phase_, lk, zone_) ==
    LET zones == ZonesOf(phase_)
    IN  IF zone_ \notin DOMAIN zones THEN FALSE
        ELSE IF target_ - runs_scored_ <= 0 THEN FALSE
        ELSE RunsScanRaises(lk, target_, runs_scored_, balls_faced_ + balls_ahead_,
                            wickets_lost_, zones[zone_][2], target_ - runs_scored_, 0)

\* one horizon and zone of calculate_strategic_projections: the search, then
\* runs_needed / balls_ahead
ZoneEntryRaises(current_pi, target_, runs_scored_, balls_faced_, wickets_lost_, balls_ahead_, phase_, lk, zone_) ==
    \/ calculate_required_runs_for_zone_raises(
            current_pi, target_, runs_scored_, balls_faced_, wickets_lost_,
            balls_ahead_, phase_, lk, zone_)
    \/ /\ calculate_required_runs_for_zone(
               current_pi, target_, runs_scored_, balls_faced_, wickets_lost_,
               balls_ahead_, phase_, lk, zone_) # NoneVal
       /\ IF balls_ahead_ > 0 THEN DivRaises(balls_ahead_) ELSE FALSE

\* calculate_strategic_projections
calculate_strategic_projections_raises(target_, runs_scored_, balls_faced_, wickets_lost_, lk, total_balls_) ==
    \/ calculate_pressure_index_raises(lk, target_, runs_scored_, balls_faced_,
                                       wickets_lost_, total_balls_)
    \/ get_phase_raises((balls_faced_ \div 6) + 1)
    \/ \E i \in 1..Len(HorizonList), z \in ProjectionZones :
          LET ba == HorizonBalls(HorizonList[i][1], balls_faced_, total_balls_)
          IN  /\ ba > 0
              /\ ZoneEntryRaises(
                     calculate_pressure_index(lk, target_, runs_scored_, balls_faced_,
                                              wickets_lost_, total_balls_),
                     target_, runs_scored_, balls_faced_, wickets_lost_, ba,
                     get_phase((balls_faced_ \div 6) + 1), lk, z)

(***************************************************************************)
(* Cost.  The number of calls of calculate_pressure_index that one call of *)
(* calculate_required_runs_for_zone makes, by following its branches.      *)
(***************************************************************************)
\* the loop of calculate_required_runs_for_zone from runs_needed on: one call
\* per iteration
RECURSIVE RunsScanEvaluations(_, _, _, _, _, _, _, _)
RunsScanEvaluations(lk, target_, runs_scored_, new_balls, wickets_lost_, target_pi, runs_remaining, runs_needed) ==
    IF runs_needed > runs_remaining THEN 0
    ELSE LET new_runs == runs_scored_ + runs_needed
             new_pi == calculate_pressure_index(lk, target_, new_runs, new_balls,
                                                wickets_lost_, DEFAULT_TOTAL_BALLS)
         IN  1 + (IF new_pi < target_pi THEN 0
                  ELSE RunsScanEvaluations(lk, target_, runs_scored_, new_balls,
                                           wickets_lost_, target_pi, runs_remaining,
                                           runs_needed + 1))

\* calculate_required_runs_for_zone
calculate_required_runs_for_zone_evaluations(current_pi, target_, runs_scored_, balls_faced_, wickets_lost_, balls_ahead_, phase_, lk, zone_) ==
    LET zones == ZonesOf(phase_)
    IN  IF zone_ \notin DOMAIN zones THEN 0
        ELSE IF target_ - runs_scored_ <= 0 THEN 0
        ELSE RunsScanEvaluations(lk, target_, runs_scored_, balls_faced_ + balls_ahead_,
                                 wickets_lost_, zones[zone_][2], target_ - runs_scored_, 0)

(***************************************************************************)
(* State: the resource lookup, the MatchState under evaluation, the        *)
(* arguments of the call, the operation last called and what it returned.  *)
(***************************************************************************)
VARIABLES lookup, target, runs_scored, balls_faced, wickets_lost, total_balls,
          phase, zone, balls_ahead, overs_left, over, ball_data,
          op, pi, zone_name, runs_needed, projections, res, raised,
          results, evaluations, threads

vars == <<lookup, target, runs_scored, balls_faced, wickets_lost, total_balls,
          phase, zone, balls_ahead, overs_left, over, ball_data,
          op, pi, zone_name, runs_needed, projections, res, raised,
          results, evaluations, threads>>

\* the inputs of a call: the table, the MatchState, and the arguments of
\* get_resources_remaining and get_phase
inputs == <<lookup, target, runs_scored, balls_faced, wickets_lost, total_balls, overs_left, over, ball_data>>

\* the returned values
outputs == <<pi, zone_name, runs_needed, projections, res, results, evaluations>>

\* the end-to-end scenarios of the specification:
\* <<target, runs_scored, balls_faced, wickets_lost, total_balls>>
Scenarios == {<<160, 140, 120, 3, 120>>, <<150, 150, 90, 4, 120>>}

BallsFacedSet == {BallStep * k : k \in 0..MaxBallIdx}

TotalBallsSet == {0, 60, DEFAULT_TOTAL_BALLS}

\* the values of runs_scored the model evaluates
RunsSet == (0..MaxRuns) \cup {s[2] : s \in Scenarios} \cup {s[1] : s \in Scenarios}

Lookups == {_build_lookup(df) : df \in Frames}

\* no call made yet, nothing returned
NoCall ==
    /\ op = "none"
    /\ pi = 0
    /\ zone_name = "none"
    /\ runs_needed = NoneVal
    /\ projections = [current_pi |-> 0, phase |-> "none", horizons |-> <<>>]
    /\ res = 0
    /\ raised = FALSE
    /\ results = <<>>
    /\ evaluations = 0

\* no batch of balls submitted, no concurrent evaluation under way
Idle ==
    /\ ball_data = <<>>
    /\ threads = <<>>

\* a MatchState and a loaded table
InitState ==
    /\ lookup \in Lookups
    /\ \/ /\ target \in 0..MaxTarget
          /\ runs_scored \in 0..MaxRuns
          /\ balls_faced \in BallsFacedSet
          /\ wickets_lost \in 0..MaxWickets
          /\ total_balls \in TotalBallsSet
       \/ \E s \in Scenarios :
            /\ target = s[1]
            /\ runs_scored = s[2]
            /\ balls_faced = s[3]
            /\ wickets_lost = s[4]
            /\ total_balls = s[5]

Init ==
    /\ InitState
    /\ overs_left = 0
    /\ over = 0
    /\ phase = "none"
    /\ zone = "none"
    /\ balls_ahead = 0
    /\ NoCall
    /\ Idle

\* pi = calc.calculate_pressure_index(target, runs_scored, balls_faced, wickets_lost, total_balls)
CalculatePressureIndex ==
    /\ op = "none"
    /\ op' = "calculate_pressure_index"
    /\ pi' = calculate_pressure_index(lookup, target, runs_scored, balls_faced,
                                      wickets_lost, total_balls)
    /\ raised' = calculate_pressure_index_raises(lookup, target, runs_scored,
                                                 balls_faced, wickets_lost, total_balls)
    /\ UNCHANGED <<inputs, results, evaluations, threads, phase, zone, balls_ahead, zone_name, runs_needed,
                   projections, res>>

\* res = dl_table.get_resources_used(balls_faced, wickets_lost, total_balls)
GetResourcesUsed ==
    /\ op = "none"
    /\ op' = "get_resources_used"
    /\ res' = get_resources_used(lookup, balls_faced, wickets_lost, total_balls)
    /\ raised' = get_resources_used_raises(lookup, balls_faced, wickets_lost,
                                           total_balls)
    /\ UNCHANGED <<inputs, results, evaluations, threads, phase, zone, balls_ahead, pi, zone_name, runs_needed,
                   projections>>

Next ==
    \/ CalculatePressureIndex
    \/ GetResourcesUsed

Spec == Init /\ [][Next]_vars

(***************************************************************************)
(* The zone classifier: a PI value and a phase are drawn, get_zone_for_pi  *)
(* is called on them.                                                      *)
(***************************************************************************)
\* the values of pi the zone specification classifies
PiSamples == (0..(MaxPiUnits * SCALE)) \cup {ToFloat(50), Inf}

\* the phase arguments: the three phases and a name the table does not hold
PhaseArgs == PhaseNames \cup {"super_over"}

InitZone ==
    /\ lookup = _build_lookup(FrameLinear)
    /\ target = 0
    /\ runs_scored = 0
    /\ balls_faced = 0
    /\ wickets_lost = 0
    /\ total_balls = DEFAULT_TOTAL_BALLS
    /\ overs_left = 0
    /\ over = 0
    /\ pi \in PiSamples
    /\ phase \in PhaseArgs
    /\ zone = "none"
    /\ balls_ahead = 0
    /\ op = "none"
    /\ zone_name = "none"
    /\ runs_needed = NoneVal
    /\ projections = [current_pi |-> 0, phase |-> "none", horizons |-> <<>>]
    /\ res = 0
    /\ raised = FALSE
    /\ results = <<>>
    /\ evaluations = 0
    /\ Idle

\* zone = get_zone_for_pi(pi, phase)
GetZoneForPi ==
    /\ op = "none"
    /\ op' = "get_zone_for_pi"
    /\ zone_name' = get_zone_for_pi(pi, phase)
    /\ raised' = get_zone_for_pi_raises(pi, phase)
    /\ UNCHANGED <<inputs, results, evaluations, threads, phase, zone, balls_ahead, pi, runs_needed, projections, res>>

NextZone == GetZoneForPi

SpecZone == InitZone /\ [][NextZone]_vars

(***************************************************************************)
(* The projection search: calculate_required_runs_for_zone is called on a  *)
(* MatchState with a horizon, a phase and a zone;                          *)
(* calculate_strategic_projections is called on a MatchState.              *)
(***************************************************************************)
\* the zone arguments: the four zones and a name the table does not hold
ZoneArgs == ZoneNames \cup {"safe"}

\* the nominal horizons, in balls
NominalHorizons == {HorizonList[i][1] * 6 : i \in 1..Len(HorizonList)}

WicketSamples == {w \in 0..MaxWickets : w % WicketStep = 0 \/ w >= 9}

InitProj ==
    /\ InitState
    /\ wickets_lost \in WicketSamples
    /\ overs_left = 0
    /\ over = 0
    /\ phase = "none"
    /\ zone = "none"
    /\ balls_ahead = 0
    /\ NoCall
    /\ Idle

\* runs_needed = calculate_required_runs_for_zone(current_pi, target, runs_scored,
\*     balls_faced, wickets_lost, balls_ahead, phase, dl_table, zone); the function
\* takes no total_balls, so it is called from the states of a 120-ball innings
CalculateRequiredRunsForZone ==
    /\ op = "none"
    /\ total_balls = DEFAULT_TOTAL_BALLS
    /\ \E ba \in NominalHorizons, ph \in PhaseArgs, z \in ZoneArgs :
          /\ balls_ahead' = ba
          /\ phase' = ph
          /\ zone' = z
          /\ pi' = calculate_pressure_index(lookup, target, runs_scored, balls_faced,
                                            wickets_lost, total_balls)
          /\ runs_needed' = calculate_required_runs_for_zone(
                                pi', target, runs_scored, balls_faced, wickets_lost,
                                ba, ph, lookup, z)
          /\ raised' = calculate_required_runs_for_zone_raises(
                           pi', target, runs_scored, balls_faced, wickets_lost,
                           ba, ph, lookup, z)
          /\ evaluations' = calculate_required_runs_for_zone_evaluations(
                                pi', target, runs_scored, balls_faced, wickets_lost,
                                ba, ph, lookup, z)
    /\ op' = "calculate_required_runs_for_zone"
    /\ UNCHANGED <<inputs, results, threads, zone_name, projections, res>>

\* projections = calculate_strategic_projections(target, runs_scored, balls_faced,
\*     wickets_lost, dl_table, total_balls)
CalculateStrategicProjections ==
    /\ op = "none"
    /\ op' = "calculate_strategic_projections"
    /\ projections' = calculate_strategic_projections(
                          target, runs_scored, balls_faced, wickets_lost, lookup,
                          total_balls)
    /\ raised' = calculate_strategic_projections_raises(
                     target, runs_scored, balls_faced, wickets_lost, lookup,
                     total_balls)
    /\ UNCHANGED <<inputs, results, evaluations, threads, phase, zone, balls_ahead, pi, zone_name, runs_needed, res>>

NextProj ==
    \/ CalculateRequiredRunsForZone
    \/ CalculateStrategicProjections

SpecProj == InitProj /\ [][NextProj]_vars

(***************************************************************************)
(* The phase classifier: get_phase is called on an over number.            *)
(***************************************************************************)
InitPhase ==
    /\ over \in (-MaxOver)..MaxOver
    /\ lookup = _build_lookup(FrameLinear)
    /\ target = 0
    /\ runs_scored = 0
    /\ balls_faced = 0
    /\ wickets_lost = 0
    /\ total_balls = DEFAULT_TOTAL_BALLS
    /\ overs_left = 0
    /\ phase = "none"
    /\ zone = "none"
    /\ balls_ahead = 0
    /\ NoCall
    /\ Idle

\* phase = get_phase(over)
GetPhase ==
    /\ op = "none"
    /\ op' = "get_phase"
    /\ phase' = get_phase(over)
    /\ raised' = get_phase_raises(over)
    /\ UNCHANGED <<inputs, results, evaluations, threads, zone, balls_ahead, pi, zone_name, runs_needed,
                   projections, res>>

NextPhase == GetPhase

SpecPhase == InitPhase /\ [][NextPhase]_vars

(***************************************************************************)
(* The core on a MatchState: each operation is called on the MatchState of *)
(* the state; the zone of the state is classified as the tracker does it,  *)
(* from the pressure index returned and the phase of the current over.     *)
(***************************************************************************)
\* current_over = balls // 6 + 1; phase = get_phase(current_over);
\* zone = get_zone_for_pi(current_pi, phase)
ClassifyCurrentPressure ==
    /\ op = "calculate_pressure_index"
    /\ ~raised
    /\ op' = "get_zone_for_pi"
    /\ over' = (balls_faced \div 6) + 1
    /\ phase' = get_phase(over')
    /\ zone_name' = get_zone_for_pi(pi, phase')
    /\ raised' = (get_phase_raises(over') \/ get_zone_for_pi_raises(pi, phase'))
    /\ UNCHANGED <<lookup, target, runs_scored, balls_faced, wickets_lost, total_balls,
                   ball_data, results, evaluations, threads,
                   overs_left, zone, balls_ahead, pi, runs_needed, projections, res>>

NextCore ==
    \/ CalculatePressureIndex
    \/ GetResourcesUsed
    \/ ClassifyCurrentPressure
    \/ CalculateStrategicProjections

SpecCore == Init /\ [][NextCore]_vars

(***************************************************************************)
(* The batch computation: calculate_ball_by_ball_pi is called on a target, *)
(* a sequence of balls and a total_balls.                                   *)
(***************************************************************************)
\* {'runs': 0, 'wicket': False}
DotBall == [runs |-> 0, wicket |-> FALSE]

\* {'runs': 1, 'wicket': False}
SingleBall == [runs |-> 1, wicket |-> FALSE]

\* {'runs': 2}: a ball without the 'wicket' key
TwoRunsBall == [runs |-> 2]

\* {'runs': 0, 'wicket': True}
WicketBall == [runs |-> 0, wicket |-> TRUE]

\* {'runs': -1, 'wicket': False}: a ball with negative runs
PenaltyBall == [runs |-> -1, wicket |-> FALSE]

BallKinds == {DotBall, SingleBall, TwoRunsBall, WicketBall, PenaltyBall}

\* the sequences over S of length at most n
SeqsUpTo(S, n) == UNION {[1..k -> S] : k \in 0..n}

\* the ball sequences of the batch specification
BallSequences ==
    {h \o [i \in 1..a |-> WicketBall] \o t :
        h \in SeqsUpTo(BallKinds, MaxHead), a \in 0..MaxWicketRun,
        t \in SeqsUpTo(BallKinds, MaxTail)}

\* the targets of the batch specification
BatchTargets == {0, 1, MaxTarget}

InitBalls ==
    /\ lookup = _build_lookup(FrameLinear)
    /\ target \in BatchTargets
    /\ total_balls \in {ShortInnings, DEFAULT_TOTAL_BALLS}
    /\ ball_data \in BallSequences
    /\ runs_scored = 0
    /\ balls_faced = 0
    /\ wickets_lost = 0
    /\ overs_left = 0
    /\ over = 0
    /\ phase = "none"
    /\ zone = "none"
    /\ balls_ahead = 0
    /\ threads = <<>>
    /\ NoCall

\* results = calc.calculate_ball_by_ball_pi(target, ball_data, total_balls)
CalculateBallByBallPi ==
    /\ op = "none"
    /\ op' = "calculate_ball_by_ball_pi"
    /\ results' = calculate_ball_by_ball_pi(lookup, target, ball_data, total_balls)
    /\ UNCHANGED <<inputs, evaluations, threads, phase, zone, balls_ahead, pi, zone_name,
                   runs_needed, projections, res, raised>>

NextBalls == CalculateBallByBallPi

SpecBalls == InitBalls /\ [][NextBalls]_vars

(***************************************************************************)
(* Over numbers: an innings of balls_faced dot balls is evaluated as a     *)
(* MatchState, by the tracker's classification and the projections, and    *)
(* as a batch.                                                             *)
(***************************************************************************)
InitOvers ==
    /\ lookup = _build_lookup(FrameLinear)
    /\ target = MaxTarget
    /\ total_balls = DEFAULT_TOTAL_BALLS
    /\ balls_faced \in 0..MaxDotBalls
    /\ ball_data = [i \in 1..balls_faced |-> DotBall]
    /\ runs_scored = 0
    /\ wickets_lost = 0
    /\ overs_left = 0
    /\ over = 0
    /\ phase = "none"
    /\ zone = "none"
    /\ balls_ahead = 0
    /\ threads = <<>>
    /\ NoCall

NextOvers ==
    \/ CalculatePressureIndex
    \/ ClassifyCurrentPressure
    \/ CalculateStrategicProjections
    \/ CalculateBallByBallPi

SpecOvers == InitOvers /\ [][NextOvers]_vars

(***************************************************************************)
(* Concurrent evaluations: NumThreads callers evaluate                     *)
(* calculate_pressure_index, each on its own MatchState, with one shared   *)
(* DuckworthLewisTable.  The only accesses to the table are the two reads  *)
(* of get_resources_remaining; they are the steps that interleave.         *)
(***************************************************************************)
ThreadIds == 1..NumThreads

\* the MatchStates the callers evaluate: runs required, wickets in hand and
\* at least one over left, so that every evaluation reads the table
ThreadArgs ==
    [target : {MaxTarget}, runs_scored : {0, 2}, balls_faced : {BallStep * 3, BallStep * 7},
     wickets_lost : {0, WicketStep}, total_balls : {DEFAULT_TOTAL_BALLS}]

\* overs_left of get_resources_used for the MatchState a
ThreadOversLeft(a) == IntDiv(a.total_balls - a.balls_faced, 6)

InitShared ==
    /\ lookup \in {_build_lookup(FrameLinear), _build_lookup(FrameSynthetic)}
    /\ threads \in [ThreadIds -> {[args |-> a, pc |-> "read_floor", cells |-> <<>>, pi |-> 0] :
                                       a \in ThreadArgs}]
    /\ ball_data = <<>>
    /\ target = 0
    /\ runs_scored = 0
    /\ balls_faced = 0
    /\ wickets_lost = 0
    /\ total_balls = DEFAULT_TOTAL_BALLS
    /\ overs_left = 0
    /\ over = 0
    /\ phase = "none"
    /\ zone = "none"
    /\ balls_ahead = 0
    /\ NoCall

\* what the steps of a caller leave alone
SharedFrame ==
    UNCHANGED <<target, runs_scored, balls_faced, wickets_lost, total_balls, overs_left,
                over, ball_data, phase, zone, balls_ahead, op, pi, zone_name,
                runs_needed, projections, res, raised, results, evaluations>>

\* res_floor = self.lookup.get((overs_floor, wickets_lost), 0.0)
ReadFloor(t) ==
    /\ threads[t].pc = "read_floor"
    /\ LET key == FloorKey(ThreadOversLeft(threads[t].args), threads[t].args.wickets_lost)
       IN  /\ threads' = [threads EXCEPT ![t].pc = "read_ceil",
                                          ![t].cells = (key :> LookupGet(lookup, key))]
           /\ lookup' = LookupAfterGet(lookup, key)
    /\ SharedFrame

\* res_ceil = self.lookup.get((overs_ceil, wickets_lost), 0.0)
ReadCeil(t) ==
    /\ threads[t].pc = "read_ceil"
    /\ LET key == CeilKey(ThreadOversLeft(threads[t].args), threads[t].args.wickets_lost)
       IN  /\ threads' = [threads EXCEPT ![t].pc = "compute",
                                          ![t].cells = (key :> LookupGet(lookup, key)) @@ @]
           /\ lookup' = LookupAfterGet(lookup, key)
    /\ SharedFrame

\* the rest of calculate_pressure_index, from the two cells read
ComputePressureIndex(t) ==
    /\ threads[t].pc = "compute"
    /\ LET a == threads[t].args
       IN  threads' = [threads EXCEPT
                          ![t].pc = "done",
                          ![t].pi = calculate_pressure_index(
                                        threads[t].cells, a.target, a.runs_scored,
                                        a.balls_faced, a.wickets_lost, a.total_balls)]
    /\ UNCHANGED lookup
    /\ SharedFrame

NextShared ==
    \E t \in ThreadIds :
        \/ ReadFloor(t)
        \/ ReadCeil(t)
        \/ ComputePressureIndex(t)

SpecShared == InitShared /\ [][NextShared]_vars

(***************************************************************************)
(* The resource table: get_resources_remaining is called on a loaded table *)
(* with an overs_left and a wickets_lost, in and out of the grid's range.  *)
(***************************************************************************)
\* the overs_left arguments
OversArgs == {OversStep * k : k \in (-MinOversIdx)..MaxOversIdx} \cup {Dec(15, 10)}

\* the wickets_lost arguments
WicketArgs == (-WicketMargin)..(9 + WicketMargin)

ResLookups == {_build_lookup(df) : df \in ResFrames}

InitRes ==
    /\ lookup \in ResLookups
    /\ overs_left \in OversArgs
    /\ wickets_lost \in WicketArgs
    /\ target = 0
    /\ runs_scored = 0
    /\ balls_faced = 0
    /\ total_balls = DEFAULT_TOTAL_BALLS
    /\ over = 0
    /\ phase = "none"
    /\ zone = "none"
    /\ balls_ahead = 0
    /\ NoCall
    /\ Idle

\* res = dl_table.get_resources_remaining(overs_left, wickets_lost)
GetResourcesRemaining ==
    /\ op = "none"
    /\ op' = "get_resources_remaining"
    /\ res' = get_resources_remaining(lookup, overs_left, wickets_lost)
    /\ raised' = get_resources_remaining_raises(lookup, overs_left, wickets_lost)
    /\ UNCHANGED <<inputs, results, evaluations, threads, phase, zone, balls_ahead, pi, zone_name, runs_needed,
                   projections>>

NextRes == GetResourcesRemaining

SpecRes == InitRes /\ [][NextRes]_vars

(***************************************************************************)
(* Claims about calculate_pressure_index, under Spec.                      *)
(***************************************************************************)
\* calculate_pressure_index has returned for the MatchState of the state
PiReturned == op = "calculate_pressure_index"

\* the invariants of a MatchState
MatchStateInvariants ==
    /\ target >= 0
    /\ runs_scored >= 0
    /\ balls_faced >= 0
    /\ wickets_lost \in 0..10
    /\ total_balls > 0

\* C1: whenever runs_scored >= target the pressure index returned is exactly 0,
\* whatever balls_faced, wickets_lost and total_balls are (also with ten
\* wickets down, with the balls exhausted, and with target = 0).
C1_TargetMetIsZero ==
    (PiReturned /\ runs_scored >= target) => pi = 0

\* C1 witness: the target is met with ten wickets down and no ball left.
C1_Witness ==
    /\ PiReturned
    /\ target > 0
    /\ runs_scored >= target
    /\ wickets_lost >= 10
    /\ balls_faced >= total_balls
    /\ pi = 0

\* C2: with wickets_lost >= 10 and runs_scored < target the pressure index
\* returned is +infinity, whatever balls_faced and total_balls are.
C2_AllOutIsInf ==
    (PiReturned /\ wickets_lost >= 10 /\ runs_scored < target) => pi = Inf

\* C2 witness: all out short of the target with balls still to come.
C2_Witness ==
    /\ PiReturned
    /\ wickets_lost >= 10
    /\ runs_scored < target
    /\ balls_faced < total_balls
    /\ pi = Inf

\* C3: with target > 0, total_balls > 0, fewer than ten wickets down, runs
\* still required and no ball left, the pressure index returned is +infinity.
C3_BallsExhaustedIsInf ==
    (/\ PiReturned
     /\ target > 0
     /\ total_balls > 0
     /\ wickets_lost < 10
     /\ runs_scored < target
     /\ total_balls - balls_faced <= 0) => pi = Inf

\* C3 witness: the scenario target=160, runs_scored=140, balls_faced=120,
\* wickets_lost=3, total_balls=120.
C3_Witness ==
    /\ PiReturned
    /\ <<target, runs_scored, balls_faced, wickets_lost, total_balls>>
          = <<160, 140, 120, 3, 120>>
    /\ pi = Inf

\* C4: for a MatchState that satisfies the invariants the pressure index
\* returned is never negative: it is 0, finite and positive, or +infinity.
C4_NeverNegative ==
    (PiReturned /\ MatchStateInvariants) =>
        (pi = 0 \/ (0 < pi /\ pi < Inf) \/ pi = Inf)

\* C4 witness: each of the three kinds of value is returned for some state;
\* the state named here returns a finite positive one.
C4_Witness ==
    /\ PiReturned
    /\ MatchStateInvariants
    /\ 0 < pi
    /\ pi < Inf

\* C5: with target, balls_faced, wickets_lost and total_balls fixed, the
\* pressure index is non-increasing in runs_scored: no larger runs_scored
\* gives a larger pressure index than the one returned.
C5_NonIncreasingInRuns ==
    PiReturned =>
        \A r2 \in RunsSet :
            r2 >= runs_scored =>
                calculate_pressure_index(lookup, target, r2, balls_faced,
                                         wickets_lost, total_balls) <= pi

\* C5 witness: a state whose pressure index is finite and strictly above the
\* positive pressure index of a state with more runs.
C5_Witness ==
    /\ PiReturned
    /\ pi < Inf
    /\ \E r2 \in RunsSet :
          /\ r2 > runs_scored
          /\ LET p2 == calculate_pressure_index(lookup, target, r2, balls_faced,
                                                wickets_lost, total_balls)
             IN  0 < p2 /\ p2 < pi

\* the sum of the wicket weights 1..n
SumOfWeights[n \in 0..11] ==
    IF n = 0 THEN 0 ELSE SumOfWeights[n - 1] + WICKET_WEIGHTS[n]

\* C6: when no edge case applies (runs_scored < target, wickets_lost < 10,
\* target > 0, balls remain) the pressure index returned is
\* CI * 0.5 * (exp(RU/100) + exp(SumWi/11)) with CI = CRRR/IRRR,
\* IRRR = target*6/total_balls, CRRR = (target-runs_scored)*6/(total_balls-balls_faced),
\* RU = get_resources_used(balls_faced, wickets_lost, total_balls) and SumWi the
\* sum of the weights of wickets 1..wickets_lost.
C6_FormulaValue ==
    (/\ PiReturned
     /\ runs_scored < target
     /\ wickets_lost \in 0..9
     /\ target > 0
     /\ total_balls - balls_faced > 0) =>
        LET IRRR == IntDiv(target * 6, total_balls)
            CRRR == IntDiv((target - runs_scored) * 6, total_balls - balls_faced)
            CI == FDiv(CRRR, IRRR)
            RU == get_resources_used(lookup, balls_faced, wickets_lost, total_balls)
            SumWi == SumOfWeights[wickets_lost]
        IN  pi = FMul(FMul(CI, Dec(5, 10)),
                      Exp(FDiv(RU, ToFloat(100))) + Exp(FDiv(SumWi, ToFloat(11))))

\* C6 witness: the formula is evaluated with wickets down and resources used.
C6_Witness ==
    /\ PiReturned
    /\ runs_scored < target
    /\ wickets_lost \in 3..9
    /\ target > 0
    /\ total_balls - balls_faced > 0
    /\ balls_faced > 0
    /\ 0 < pi
    /\ pi < Inf

(***************************************************************************)
(* Claims about get_zone_for_pi, under SpecZone.                           *)
(***************************************************************************)
\* get_zone_for_pi has returned for the pi and the phase of the state
ZoneReturned == op = "get_zone_for_pi"

\* x lies in the half-open interval [low, high) of zone z in the table of phase ph
InZone(ph, z, x) ==
    STRATEGIC_ZONES[ph][z][1] <= x /\ x < STRATEGIC_ZONES[ph][z][2]

\* C7: in each of the three phases every finite pi >= 0 is mapped to the one
\* label among target/acceptable/risky/avoid whose interval [low, high) in the
\* phase's table contains pi, and +infinity is mapped to 'avoid'.
C7_ZoneIsTheContainingInterval ==
    (ZoneReturned /\ phase \in PhaseNames /\ pi >= 0) =>
        IF pi = Inf THEN zone_name = "avoid"
        ELSE /\ zone_name \in ZoneNames
             /\ InZone(phase, zone_name, pi)
             /\ \A z \in ZoneNames \ {zone_name} : ~InZone(phase, z, pi)

\* C7 witness: a pi on the boundary of two intervals is given the upper one.
C7_Witness ==
    /\ ZoneReturned
    /\ phase = "death_overs"
    /\ pi = Dec(25, 10)
    /\ zone_name = "risky"

(***************************************************************************)
(* Claims about the projection search, under SpecProj.                     *)
(***************************************************************************)
\* calculate_required_runs_for_zone has returned for the arguments of the state
RequiredRunsReturned == op = "calculate_required_runs_for_zone"

\* calculate_strategic_projections has returned for the MatchState of the state
ProjectionsReturned == op = "calculate_strategic_projections"

\* the pressure index the search evaluates at runs_scored + j, ba balls ahead
ProjectedPI(j, ba) ==
    calculate_pressure_index(lookup, target, runs_scored + j, balls_faced + ba,
                             wickets_lost, DEFAULT_TOTAL_BALLS)

\* k is the least number of runs whose projected pressure index is strictly
\* below bound
LeastBelow(k, ba, bound) ==
    /\ k \in Nat
    /\ ProjectedPI(k, ba) < bound
    /\ \A j \in 0..(k - 1) : ~(ProjectedPI(j, ba) < bound)

\* what an exhaustive scan of 0..(target - runs_scored) returns: the least
\* value whose projected pressure index is below bound, None if there is none
ExhaustiveScan(ba, bound) ==
    LET found == {j \in 0..(target - runs_scored) : ProjectedPI(j, ba) < bound}
    IN  IF found = {} THEN NoneVal
        ELSE CHOOSE j \in found : \A i \in found : j <= i

\* C8 as stated: when calculate_required_runs_for_zone returns k, the projected
\* pressure index at runs_scored + k is strictly below the zone's upper bound,
\* at runs_scored + j it is not below it for every j < k, and k is what an
\* exhaustive scan of 0..(target - runs_scored) returns.
C8_ReturnsTheExhaustiveScan ==
    (RequiredRunsReturned /\ zone \in ZoneNames /\ runs_needed # NoneVal) =>
        LET bound == ZonesOf(phase)[zone][2]
        IN  /\ LeastBelow(runs_needed, balls_ahead, bound)
            /\ runs_needed = ExhaustiveScan(balls_ahead, bound)

\* C8 as amended: when calculate_required_runs_for_zone returns k, the
\* projected pressure index at runs_scored + k is strictly below the zone's
\* upper bound and at runs_scored + j it is not below it for every j < k; for
\* runs_scored <= target, k is what an exhaustive scan of
\* 0..(target - runs_scored) returns, and for runs_scored > target, where that
\* range is empty, k is 0.
C8_ReturnsTheMinimum ==
    (RequiredRunsReturned /\ zone \in ZoneNames /\ runs_needed # NoneVal) =>
        LET bound == ZonesOf(phase)[zone][2]
        IN  /\ LeastBelow(runs_needed, balls_ahead, bound)
            /\ runs_scored <= target =>
                  runs_needed = ExhaustiveScan(balls_ahead, bound)
            /\ runs_scored > target => runs_needed = 0

\* C8 witness: the minimum lies strictly inside the scanned range.
C8_Witness ==
    /\ RequiredRunsReturned
    /\ zone \in ZoneNames
    /\ 0 < runs_needed
    /\ runs_needed < target - runs_scored
    /\ ProjectedPI(runs_needed, balls_ahead) > 0

\* the upper bound of zone z in the table of phase ph
UpperBound(ph, z) == STRATEGIC_ZONES[ph][z][2]

\* the phase of the delivery after n balls
PhaseAfter(n) == get_phase((n \div 6) + 1)

\* C9 as stated: the runs of every horizon and zone are the least runs whose
\* projected pressure index is below the zone's upper bound in the phase at
\* the horizon, the phase of over floor((balls_faced + balls)/6) + 1.
C9_ThresholdOfHorizonPhase ==
    ProjectionsReturned =>
        \A label \in DOMAIN projections.horizons : \A z \in ProjectionZones :
            LET h == projections.horizons[label]
            IN  LeastBelow(h.zones[z].runs, h.balls,
                           UpperBound(PhaseAfter(balls_faced + h.balls), z))

\* C9 as amended: the runs of every horizon and zone are the least runs whose
\* projected pressure index is below the zone's upper bound in the phase of
\* the current delivery, the phase of over floor(balls_faced/6) + 1, also
\* when the horizon lies in a later phase.
C9_ThresholdOfCurrentPhase ==
    ProjectionsReturned =>
        /\ projections.phase = PhaseAfter(balls_faced)
        /\ \A label \in DOMAIN projections.horizons : \A z \in ProjectionZones :
              LET h == projections.horizons[label]
              IN  LeastBelow(h.zones[z].runs, h.balls,
                             UpperBound(PhaseAfter(balls_faced), z))

\* C9 witness: a horizon that crosses into a later phase, whose runs are the
\* least for the current phase's bound and not for the later phase's.
C9_Witness ==
    /\ ProjectionsReturned
    /\ \E label \in DOMAIN projections.horizons : \E z \in ProjectionZones :
          LET h == projections.horizons[label]
          IN  /\ PhaseAfter(balls_faced + h.balls) # PhaseAfter(balls_faced)
              /\ LeastBelow(h.zones[z].runs, h.balls,
                            UpperBound(PhaseAfter(balls_faced), z))
              /\ ~LeastBelow(h.zones[z].runs, h.balls,
                             UpperBound(PhaseAfter(balls_faced + h.balls), z))

\* C10: every horizon reported has 0 < balls and balls_faced + balls <=
\* total_balls; a nominal horizon of 6, 12 or 18 balls is reported as it is
\* when it ends within the innings, clipped to total_balls - balls_faced when
\* it would pass the end, and omitted when no ball is left.
C10_HorizonsWithinInnings ==
    ProjectionsReturned =>
        /\ \A label \in DOMAIN projections.horizons :
              /\ 0 < projections.horizons[label].balls
              /\ balls_faced + projections.horizons[label].balls <= total_balls
        /\ \A i \in 1..Len(HorizonList) :
              LET nominal == 6 * HorizonList[i][1]
                  label == HorizonList[i][2]
                  left == total_balls - balls_faced
              IN  IF balls_faced + nominal <= total_balls
                  THEN /\ label \in DOMAIN projections.horizons
                       /\ projections.horizons[label].balls = nominal
                  ELSE IF left > 0
                  THEN /\ label \in DOMAIN projections.horizons
                       /\ projections.horizons[label].balls = left
                  ELSE label \notin DOMAIN projections.horizons

\* C10 witness: the one-over horizon fits, the three-over horizon is clipped.
C10_Witness ==
    /\ ProjectionsReturned
    /\ DOMAIN projections.horizons = {"next_1_over", "next_2_overs", "next_3_overs"}
    /\ projections.horizons["next_1_over"].balls = 6
    /\ projections.horizons["next_3_overs"].balls < 18
    /\ balls_faced + projections.horizons["next_3_overs"].balls = total_balls

\* some number of runs in the range `range` brings the projected pressure
\* index at ba balls ahead strictly below bound
SomeRunsBelow(range, ba, bound) == \E j \in range : ProjectedPI(j, ba) < bound

\* the entry of a horizon and zone is well formed: either not achievable with
\* runs and rate null, or achievable with a non-null integer number of runs
EntryWellFormed(e) ==
    /\ e.achievable \in BOOLEAN
    /\ ~e.achievable => (e.runs = NoneVal /\ e.rpo = NoneVal)
    /\ e.achievable => (e.runs \in Nat /\ e.rpo # NoneVal)

\* C11 as stated: the entry of every horizon and zone is not achievable
\* exactly when no runs_needed in 0..(target - runs_scored) brings the
\* projected pressure index below the zone's upper bound; then runs and rate
\* are null; otherwise it is achievable and runs is a non-null integer.
C11_UnachievableIffNoneInRange ==
    ProjectionsReturned =>
        \A label \in DOMAIN projections.horizons : \A z \in ProjectionZones :
            LET h == projections.horizons[label]
            IN  /\ EntryWellFormed(h.zones[z])
                /\ ~h.zones[z].achievable <=>
                      ~SomeRunsBelow(0..(target - runs_scored), h.balls,
                                     UpperBound(PhaseAfter(balls_faced), z))

\* C11 as amended: the entry of every horizon and zone is not achievable
\* exactly when no runs_needed in 0..max(0, target - runs_scored) brings the
\* projected pressure index below the zone's upper bound; then runs and rate
\* are null; otherwise it is achievable and runs is a non-null integer.  For
\* runs_scored > target the entry is achievable with 0 runs.
C11_UnachievableIffNoneInClampedRange ==
    ProjectionsReturned =>
        \A label \in DOMAIN projections.horizons : \A z \in ProjectionZones :
            LET h == projections.horizons[label]
            IN  /\ EntryWellFormed(h.zones[z])
                /\ ~h.zones[z].achievable <=>
                      ~SomeRunsBelow(0..Max(0, target - runs_scored), h.balls,
                                     UpperBound(PhaseAfter(balls_faced), z))
                /\ runs_scored > target =>
                      (h.zones[z].achievable /\ h.zones[z].runs = 0)

\* C11 witness: an achievable entry that needs runs, next to an entry of
\* another zone that needs none.
C11_Witness ==
    /\ ProjectionsReturned
    /\ \E label \in DOMAIN projections.horizons : \E z1, z2 \in ProjectionZones :
          LET h == projections.horizons[label]
          IN  /\ h.zones[z1].achievable
              /\ h.zones[z1].runs > 0
              /\ h.zones[z2].achievable
              /\ h.zones[z2].runs = 0
              /\ runs_scored < target

\* C12 as stated: the rate of every achievable entry equals
\* runs * 6 / balls, balls being the clipped number of balls of the horizon.
C12_RateIsTheQuotient ==
    ProjectionsReturned =>
        \A label \in DOMAIN projections.horizons : \A z \in ProjectionZones :
            LET h == projections.horizons[label]
            IN  h.zones[z].achievable =>
                    h.zones[z].rpo = IntDiv(h.zones[z].runs * 6, h.balls)

\* the nominal overs of the horizon labelled label
OversAhead(label) ==
    HorizonList[CHOOSE i \in 1..Len(HorizonList) : HorizonList[i][2] = label][1]

\* x is n / d rounded to a hundredth: x is q hundredths for a q within half a
\* hundredth of n / d
IsRoundedToHundredths(x, n, d) ==
    \E q \in {(100 * n) \div d, ((100 * n) \div d) + 1} :
        /\ x = Dec(q, 100)
        /\ 2 * (100 * n - q * d) <= d
        /\ 2 * (q * d - 100 * n) <= d

\* C12 as amended: the rate of every achievable entry equals
\* runs * 6 / balls rounded to two decimals, balls being the clipped number
\* of balls of the horizon.
C12_RateIsTheRoundedQuotient ==
    ProjectionsReturned =>
        \A label \in DOMAIN projections.horizons : \A z \in ProjectionZones :
            LET h == projections.horizons[label]
            IN  h.zones[z].achievable =>
                    /\ h.balls = HorizonBalls(OversAhead(label), balls_faced,
                                              total_balls)
                    /\ IsRoundedToHundredths(h.zones[z].rpo, h.zones[z].runs * 6,
                                             h.balls)

\* C12 witness: one run over a horizon of 18 balls, reported as 0.33.
C12_Witness ==
    /\ ProjectionsReturned
    /\ "next_3_overs" \in DOMAIN projections.horizons
    /\ projections.horizons["next_3_overs"].balls = 18
    /\ \E z \in ProjectionZones :
          /\ projections.horizons["next_3_overs"].zones[z].achievable
          /\ projections.horizons["next_3_overs"].zones[z].runs = 1
          /\ projections.horizons["next_3_overs"].zones[z].rpo = Dec(33, 100)

(***************************************************************************)
(* Claims about get_resources_used, under Spec.                            *)
(***************************************************************************)
\* get_resources_used has returned for the MatchState of the state
UsedReturned == op = "get_resources_used"

\* C18: get_resources_used returns max(0, 100 - remaining) for the remaining
\* resources at (total_balls - balls_faced) / 6 overs; on a grid with cells in
\* [0, 100] the value lies in [0, 100], and it is 100 when fewer than 6 balls
\* remain.
C18_UsedIsTheComplement ==
    UsedReturned =>
        /\ res = Max(0, ToFloat(100)
                          - get_resources_remaining(
                                lookup, TruncDiv((total_balls - balls_faced) * SCALE, 6),
                                wickets_lost))
        /\ 0 <= res
        /\ res <= ToFloat(100)
        /\ total_balls - balls_faced < 6 => res = ToFloat(100)

\* C18 witness: a fractional number of overs left with part of the resources
\* used.
C18_Witness ==
    /\ UsedReturned
    /\ (total_balls - balls_faced) % 6 # 0
    /\ total_balls - balls_faced > 6
    /\ wickets_lost > 0
    /\ 0 < res
    /\ res < ToFloat(100)

(***************************************************************************)
(* Claims about get_phase, under SpecPhase.                                *)
(***************************************************************************)
\* get_phase has returned for the over of the state
PhaseReturned == op = "get_phase"

\* C20: get_phase returns powerplay for over <= 6, middle_overs for
\* 7 <= over <= 16 and death_overs for over > 16, one phase for every integer.
C20_PhaseOfOver ==
    PhaseReturned =>
        /\ phase \in PhaseNames
        /\ over <= 6 => phase = "powerplay"
        /\ (7 <= over /\ over <= 16) => phase = "middle_overs"
        /\ over > 16 => phase = "death_overs"

\* C20 witness: over 21, the over of balls_faced = 120, is in the death overs.
C20_Witness ==
    /\ PhaseReturned
    /\ over = (DEFAULT_TOTAL_BALLS \div 6) + 1
    /\ over = 21
    /\ phase = "death_overs"

(***************************************************************************)
(* Claims about the core as a whole, under SpecCore.                       *)
(***************************************************************************)
\* C13: for a MatchState that satisfies the invariants, balls_faced >=
\* total_balls included, no operation of the core raises; where the required
\* rate is undefined the pressure index is +infinity.
C13_NoOperationRaises ==
    (op # "none" /\ MatchStateInvariants) =>
        /\ ~raised
        /\ (PiReturned /\ balls_faced >= total_balls /\ runs_scored < target
                /\ wickets_lost < 10) => pi = Inf

\* C13 witness: the projections of a MatchState whose balls are exhausted
\* with runs still required return, without raising, a pressure index of
\* +infinity.
C13_Witness ==
    /\ ProjectionsReturned
    /\ MatchStateInvariants
    /\ balls_faced >= total_balls
    /\ runs_scored < target
    /\ ~raised
    /\ projections.current_pi = Inf

(***************************************************************************)
(* Claims about get_resources_remaining, under SpecRes.                    *)
(***************************************************************************)
\* get_resources_remaining has returned for the arguments of the state
RemainingReturned == op = "get_resources_remaining"

\* the keys of a full grid
GridKeys == (0..20) \X (0..9)

\* the lookup holds a full grid with cells in [0, 100], non-decreasing in
\* overs_left and non-increasing in wickets_lost
GridOrdered(lk) ==
    /\ DOMAIN lk = GridKeys
    /\ \A k \in GridKeys : 0 <= lk[k] /\ lk[k] <= ToFloat(100)
    /\ \A o \in 0..19, w \in 0..9 : lk[<<o, w>>] <= lk[<<o + 1, w>>]
    /\ \A o \in 0..20, w \in 0..8 : lk[<<o, w>>] >= lk[<<o, w + 1>>]

\* C14: on a grid that is non-decreasing in overs_left and non-increasing in
\* wickets_lost, the value returned for (overs_left, wickets_lost) is at most
\* the value for every larger overs_left with the same wickets_lost, and at
\* least the value for every larger wickets_lost with the same overs_left,
\* over fractional, negative and above-20 overs_left and out-of-range
\* wickets_lost.
C14_RemainingIsMonotone ==
    (RemainingReturned /\ GridOrdered(lookup)) =>
        /\ \A o2 \in OversArgs :
              overs_left <= o2 =>
                  res <= get_resources_remaining(lookup, o2, wickets_lost)
        /\ \A w2 \in WicketArgs :
              wickets_lost <= w2 =>
                  res >= get_resources_remaining(lookup, overs_left, w2)

\* C14 witness: a value strictly between two knots of an ordered grid,
\* strictly above the value a quarter over earlier and strictly above the
\* value with one more wicket lost.
C14_Witness ==
    /\ RemainingReturned
    /\ GridOrdered(lookup)
    /\ overs_left % SCALE # 0
    /\ overs_left - OversStep \in OversArgs
    /\ wickets_lost + 1 \in 0..9
    /\ res > get_resources_remaining(lookup, overs_left - OversStep, wickets_lost)
    /\ res > get_resources_remaining(lookup, overs_left, wickets_lost + 1)

\* the grid of the lookup with 0 for every absent cell
Grid == [k \in GridKeys |-> IF k \in DOMAIN lookup THEN lookup[k] ELSE 0]

\* wickets_lost clamped into 0..9
ClampedWickets == IF wickets_lost < 0 THEN 0 ELSE IF wickets_lost > 9 THEN 9 ELSE wickets_lost

\* the integer floor of a non-negative overs_left
FloorOvers == overs_left \div SCALE

\* the linear interpolation of grid g between the knots f and f + 1 at
\* overs_left, for column w
Interpolation(g, f, w) ==
    g[<<f, w>>] + TruncDiv((overs_left - f * SCALE) * (g[<<f + 1, w>>] - g[<<f, w>>]), SCALE)

\* C15: for overs_left whose integer floor f is in 1..19 the value returned
\* is grid(f, w) + (overs_left - f) * (grid(f + 1, w) - grid(f, w)), and for
\* overs_left >= 20 it is grid(20, w), w being wickets_lost clamped.
C15_LinearInterpolation ==
    RemainingReturned =>
        /\ (overs_left >= 0 /\ FloorOvers \in 1..19) =>
              res = Interpolation(Grid, FloorOvers, ClampedWickets)
        /\ overs_left >= ToFloat(20) => res = Grid[<<20, ClampedWickets>>]

\* C15 witness: on the synthetic grid the value at (1.5, 0) is 75.
C15_Witness ==
    /\ RemainingReturned
    /\ lookup = _build_lookup(FrameSynthetic)
    /\ overs_left = Dec(15, 10)
    /\ wickets_lost = 0
    /\ res = ToFloat(75)

\* C16: for every overs_left < 1, negative values included, the value
\* returned is 0, for every wickets_lost and every grid.
C16_ZeroBelowOneOver ==
    (RemainingReturned /\ overs_left < ToFloat(1)) => res = 0

\* C16 witness: 0 is returned for a fractional overs_left on a grid whose
\* cells at overs 0 and 1 are not 0.
C16_Witness ==
    /\ RemainingReturned
    /\ 0 < overs_left
    /\ overs_left < ToFloat(1)
    /\ Grid[<<0, ClampedWickets>>] > 0
    /\ Grid[<<1, ClampedWickets>>] > Grid[<<0, ClampedWickets>>]
    /\ res = 0

\* C17: the value returned for a wickets_lost above 9 is the value for 9, and
\* the value returned for a wickets_lost below 0 is the value for 0.
C17_WicketsClamped ==
    RemainingReturned =>
        /\ wickets_lost > 9 => res = get_resources_remaining(lookup, overs_left, 9)
        /\ wickets_lost < 0 => res = get_resources_remaining(lookup, overs_left, 0)
        /\ wickets_lost > 9 =>
              (overs_left >= ToFloat(20) => res = Grid[<<20, 9>>])
        /\ wickets_lost < 0 =>
              (overs_left >= ToFloat(20) => res = Grid[<<20, 0>>])

\* C17 witness: a non-zero value returned for wickets_lost = 10, the value
\* of column 9.
C17_Witness ==
    /\ RemainingReturned
    /\ wickets_lost = 10
    /\ res > 0
    /\ overs_left >= ToFloat(20)
    /\ res = Grid[<<20, 9>>]

\* a cell the call reads is absent from the lookup
ReadsAbsentCell ==
    /\ overs_left >= ToFloat(1)
    /\ \/ <<Min(20, FloorOvers), ClampedWickets>> \notin DOMAIN lookup
       \/ <<Min(20, FloorOvers + 1), ClampedWickets>> \notin DOMAIN lookup

\* C19: a call that reads an absent cell does not raise and returns the
\* interpolation with 0 in the place of each absent cell.
C19_AbsentCellIsZero ==
    (RemainingReturned /\ ReadsAbsentCell) =>
        /\ ~raised
        /\ res = IF FloorOvers >= 20 THEN Grid[<<20, ClampedWickets>>]
                 ELSE Interpolation(Grid, FloorOvers, ClampedWickets)

\* C19 witness: between a present knot and an absent one the value falls
\* towards 0.
C19_Witness ==
    /\ RemainingReturned
    /\ ~raised
    /\ <<FloorOvers, ClampedWickets>> \in DOMAIN lookup
    /\ <<FloorOvers + 1, ClampedWickets>> \notin DOMAIN lookup
    /\ FloorOvers + 1 <= 20
    /\ 0 < res
    /\ res < lookup[<<FloorOvers, ClampedWickets>>]

(***************************************************************************)
(* Claims about concurrent evaluations, under SpecShared.                  *)
(***************************************************************************)
\* every evaluation that has finished returned the pressure index of its own
\* MatchState on the shared table
EvaluationsAgree ==
    \A t \in DOMAIN threads :
        threads[t].pc = "done" =>
            threads[t].pi = calculate_pressure_index(
                                lookup, threads[t].args.target, threads[t].args.runs_scored,
                                threads[t].args.balls_faced, threads[t].args.wickets_lost,
                                threads[t].args.total_balls)

\* C21: no step of an evaluation changes the resource lookup, and under every
\* interleaving of the evaluations that share it each evaluation returns the
\* pressure index of its own MatchState.
C21_TableIsNeverWritten ==
    /\ [][lookup' = lookup]_vars
    /\ []EvaluationsAgree

\* C21 witness: one evaluation has run from start to end between the two
\* reads of another, on a table with absent cells.
C21_Witness ==
    /\ DOMAIN threads = ThreadIds
    /\ threads[1].pc = "read_ceil"
    /\ threads[2].pc = "done"
    /\ threads[2].pi > 0
    /\ threads[2].pi # Inf
    /\ lookup = _build_lookup(FrameSynthetic)

(***************************************************************************)
(* Further claims about the projection search, under SpecProj.             *)
(***************************************************************************)
\* the pressure index at runs_scored + j, ba balls ahead, evaluated with the
\* total_balls tb
ProjectedPIWith(j, ba, tb) ==
    calculate_pressure_index(lookup, target, runs_scored + j, balls_faced + ba,
                             wickets_lost, tb)

\* k is the least number of runs whose projected pressure index, evaluated
\* with the total_balls tb, is strictly below bound
LeastBelowWith(k, ba, bound, tb) ==
    /\ k \in Nat
    /\ ProjectedPIWith(k, ba, tb) < bound
    /\ \A j \in 0..(k - 1) : ~(ProjectedPIWith(j, ba, tb) < bound)

\* C22: the runs of every horizon and zone are the least runs whose projected
\* pressure index, evaluated with the total_balls of the MatchState, is below
\* the zone's upper bound, for every total_balls.
C22_SearchUsesTotalBalls ==
    ProjectionsReturned =>
        \A label \in DOMAIN projections.horizons : \A z \in ProjectionZones :
            LET h == projections.horizons[label]
            IN  LeastBelowWith(h.zones[z].runs, h.balls,
                               UpperBound(PhaseAfter(balls_faced), z), total_balls)

\* C22 witness: in an innings of 60 balls the runs reported for a horizon are
\* the least for the projected pressure index of a 120-ball innings and not
\* for that of the 60-ball innings.
C22_Witness ==
    /\ ProjectionsReturned
    /\ total_balls # DEFAULT_TOTAL_BALLS
    /\ \E label \in DOMAIN projections.horizons : \E z \in ProjectionZones :
          LET h == projections.horizons[label]
          IN  /\ LeastBelowWith(h.zones[z].runs, h.balls,
                                UpperBound(PhaseAfter(balls_faced), z),
                                DEFAULT_TOTAL_BALLS)
              /\ ~LeastBelowWith(h.zones[z].runs, h.balls,
                                 UpperBound(PhaseAfter(balls_faced), z), total_balls)

\* the least e with 2^e >= n, for n >= 1
RECURSIVE CeilLog2(_)
CeilLog2(n) == IF n <= 1 THEN 0 ELSE 1 + CeilLog2((n + 1) \div 2)

\* C25: for one horizon and zone the search makes at most
\* log2(target - runs_scored + 1) + 1 evaluations of calculate_pressure_index,
\* not one per candidate value of runs_needed.
C25_LogarithmicEvaluations ==
    (RequiredRunsReturned /\ zone \in ZoneNames /\ runs_scored < target) =>
        evaluations <= CeilLog2(target - runs_scored + 1) + 1

\* C25 witness: with 20 runs required and the balls exhausted at the horizon
\* the search evaluates the pressure index once for each of the 21 candidates.
C25_Witness ==
    /\ RequiredRunsReturned
    /\ zone \in ZoneNames
    /\ target - runs_scored = 20
    /\ runs_needed = 20
    /\ evaluations = 21

(***************************************************************************)
(* Further claims about calculate_pressure_index, under Spec.              *)
(***************************************************************************)
\* C26: for target > 0 and total_balls > 0 the pressure index is 0 exactly
\* when runs_scored >= target, +infinity exactly when runs_scored < target
\* and (wickets_lost >= 10 or balls_faced >= total_balls), and finite and
\* strictly positive in every other state.
C26_ValueCharacterisesTheChase ==
    (PiReturned /\ target > 0 /\ total_balls > 0) =>
        /\ pi = 0 <=> runs_scored >= target
        /\ pi = Inf <=> (runs_scored < target
                            /\ (wickets_lost >= 10 \/ balls_faced >= total_balls))
        /\ (runs_scored < target /\ wickets_lost < 10 /\ balls_faced < total_balls) =>
              (0 < pi /\ pi < Inf)

\* C26 witness: a chase under way with a finite, strictly positive pressure
\* index.
C26_Witness ==
    /\ PiReturned
    /\ target > 0
    /\ total_balls > 0
    /\ runs_scored < target
    /\ 0 < wickets_lost
    /\ wickets_lost < 10
    /\ 0 < balls_faced
    /\ balls_faced < total_balls
    /\ 0 < pi
    /\ pi < Inf

(***************************************************************************)
(* Further claims about the projections, under SpecProj.                   *)
(***************************************************************************)
\* C27: for the zones target, acceptable and risky and every state, phase and
\* horizon, calculate_required_runs_for_zone returns an integer k with
\* 0 <= k <= max(0, target - runs_scored), never None; every entry of
\* calculate_strategic_projections is achievable.
C27_SearchNeverFails ==
    /\ (RequiredRunsReturned /\ zone \in ProjectionZones) =>
          /\ runs_needed # NoneVal
          /\ 0 <= runs_needed
          /\ runs_needed <= Max(0, target - runs_scored)
    /\ ProjectionsReturned =>
          \A label \in DOMAIN projections.horizons : \A z \in ProjectionZones :
              /\ projections.horizons[label].zones[z].achievable
              /\ projections.horizons[label].zones[z].runs
                    \in 0..Max(0, target - runs_scored)

\* C27 witness: only scoring all the remaining runs brings the projected
\* pressure index below the bound.
C27_Witness ==
    /\ RequiredRunsReturned
    /\ zone \in ProjectionZones
    /\ target - runs_scored > 1
    /\ runs_needed = target - runs_scored
    /\ ProjectedPI(runs_needed - 1, balls_ahead) # Inf

\* C28: within one horizon the runs are ordered by the strictness of the
\* zone: runs(target) >= runs(acceptable) >= runs(risky).
C28_RunsOrderedByZone ==
    ProjectionsReturned =>
        \A label \in DOMAIN projections.horizons :
            LET zs == projections.horizons[label].zones
            IN  /\ zs["target"].runs >= zs["acceptable"].runs
                /\ zs["acceptable"].runs >= zs["risky"].runs
                /\ zs["risky"].runs >= 0

\* C28 witness: a horizon whose three zones need three different numbers of
\* runs.
C28_Witness ==
    /\ ProjectionsReturned
    /\ \E label \in DOMAIN projections.horizons :
          LET zs == projections.horizons[label].zones
          IN  /\ zs["target"].runs > zs["acceptable"].runs
              /\ zs["acceptable"].runs > zs["risky"].runs

\* the projected state has no balls left of the 120 or no wicket in hand
NothingLeftAt(ba) == balls_faced + ba >= DEFAULT_TOTAL_BALLS \/ wickets_lost >= 10

\* C29: when runs_scored < target and the projected state has no balls left
\* (balls_faced + balls_ahead >= 120) or wickets_lost >= 10, the runs returned
\* for every zone are target - runs_scored, in calculate_required_runs_for_zone
\* and in every such horizon of calculate_strategic_projections.
C29_FullRemainingRuns ==
    /\ (RequiredRunsReturned /\ zone \in ZoneNames /\ runs_scored < target
            /\ NothingLeftAt(balls_ahead)) =>
          runs_needed = target - runs_scored
    /\ (ProjectionsReturned /\ runs_scored < target) =>
          \A label \in DOMAIN projections.horizons :
              NothingLeftAt(projections.horizons[label].balls) =>
                  \A z \in ProjectionZones :
                      projections.horizons[label].zones[z].runs = target - runs_scored

\* C29 witness: a horizon clipped to the end of a 120-ball innings, wickets in
\* hand, whose three zones report all the remaining runs.
C29_Witness ==
    /\ ProjectionsReturned
    /\ runs_scored < target
    /\ wickets_lost < 10
    /\ total_balls = DEFAULT_TOTAL_BALLS
    /\ "next_3_overs" \in DOMAIN projections.horizons
    /\ projections.horizons["next_3_overs"].balls < 18
    /\ \A z \in ProjectionZones :
          projections.horizons["next_3_overs"].zones[z].runs = target - runs_scored
    /\ target - runs_scored > 1
    /\ ProjectedPI(target - runs_scored - 1, projections.horizons["next_3_overs"].balls) = Inf

(***************************************************************************)
(* Claims about calculate_ball_by_ball_pi, under SpecBalls and SpecOvers.  *)
(***************************************************************************)
\* calculate_ball_by_ball_pi has returned for the ball_data of the state
BallsReturned == op = "calculate_ball_by_ball_pi"

\* the sum of 'runs' over balls 1..i of ball_data
RECURSIVE RunsUpTo(_)
RunsUpTo(i) ==
    IF i = 0 THEN 0
    ELSE RunsUpTo(i - 1)
         + (IF "runs" \in DOMAIN ball_data[i] THEN ball_data[i]["runs"] ELSE 0)

\* the balls among 1..i of ball_data with 'wicket' true
WicketsUpTo(i) ==
    Cardinality({j \in 1..i : "wicket" \in DOMAIN ball_data[j] /\ ball_data[j]["wicket"]})

C24_OverOfBallsFaced ==
    /\ ProjectionsReturned => projections.phase = get_phase((balls_faced \div 6) + 1)
    /\ ZoneReturned => over = (balls_faced \div 6) + 1
    /\ BallsReturned => \A i \in 1..Len(results) : results[i].over = (i \div 6) + 1

\* C24 as amended: the over of the current phase and of the tracker's
\* classification is floor(balls_faced / 6) + 1, so balls_faced = 6 is in
\* over 2 and balls_faced = 36 in over 7 (middle_overs); the 'over' field of
\* entry i of the batch is floor((i - 1) / 6) + 1, the over in which ball i
\* was bowled, so the entry of ball 6 has over 1.
C24_OverOfStateAndOfBall ==
    /\ ProjectionsReturned => projections.phase = get_phase((balls_faced \div 6) + 1)
    /\ (ProjectionsReturned /\ balls_faced = 36) => projections.phase = "middle_overs"
    /\ ZoneReturned => over = (balls_faced \div 6) + 1
    /\ (ZoneReturned /\ balls_faced = 6) => over = 2
    /\ BallsReturned =>
          \A i \in 1..Len(results) :
              /\ results[i].over = ((i - 1) \div 6) + 1
              /\ results[i].ball_in_over = ((i - 1) % 6) + 1
              /\ 6 * (results[i].over - 1) + results[i].ball_in_over = i

\* C24 witness: the batch of 36 balls, whose entry of ball 6 has over 1 and
\* whose entry of ball 36 has over 6.
C24_Witness ==
    /\ BallsReturned
    /\ Len(results) = 36
    /\ results[6].over = 1
    /\ results[36].over = 6
    /\ get_phase((balls_faced \div 6) + 1) = "middle_overs"

\* no ball of ball_data has negative runs
RunsNonNegative ==
    \A i \in 1..Len(ball_data) :
        "runs" \in DOMAIN ball_data[i] => ball_data[i]["runs"] >= 0

\* C30: for balls with non-negative runs the cumulative runs and wickets are
\* non-decreasing from entry to entry; once an entry has runs >= target its
\* pressure_index and that of every later entry is 0; the loop goes through
\* every ball, past the target, the tenth wicket and total_balls.
C30_ZeroOnceTargetReached ==
    (BallsReturned /\ RunsNonNegative) =>
        /\ Len(results) = Len(ball_data)
        /\ \A i \in 1..(Len(results) - 1) :
              /\ results[i].runs <= results[i + 1].runs
              /\ results[i].wickets <= results[i + 1].wickets
        /\ \A i \in 1..Len(results) :
              results[i].runs >= target =>
                  \A j \in i..Len(results) : results[j].pressure_index = 0

\* C30 witness: the target is reached, then ten wickets fall and the ball
\* count passes total_balls, and the last entry has pressure index 0 after
\* an entry with a positive one.
C30_Witness ==
    /\ BallsReturned
    /\ RunsNonNegative
    /\ target > 0
    /\ Len(results) > total_balls
    /\ results[1].runs >= target
    /\ results[1].pressure_index = 0
    /\ results[Len(results)].wickets >= 10
    /\ results[Len(results)].pressure_index = 0

====
